---- MODULE Spec2Model ----
(***************************************************************************)
(* Playlist counters: the recomputation task                               *)
(* count_recordings_that_match_playlist_filters, the legacy filter          *)
(* normalizer and the universal-filter translator it calls.                *)
(*                                                                         *)
(* Python values are encoded as follows.  A dict is a function from key    *)
(* strings to values (the empty dict is <<>>), a list is a sequence, a     *)
(* str- or bool-valued field that may be None holds NoneStr (PyTrue and    *)
(* PyFalse for the booleans), an object- or list-valued one holds None,    *)
(* with the list wrapped by PyList.                                        *)
(***************************************************************************)
EXTENDS Integers, Sequences, FiniteSets, TLC

VARIABLES
    now,        \* the wall clock read by datetime.now(), in ticks
    advances,   \* how often the clock has been advanced
    db,         \* SessionRecordingPlaylist rows, by id
    redis,      \* the redis keyspace: key -> [value, expires_at]
    counters,   \* the prometheus counters, by name and label
    task,       \* per task invocation: the frame of the task body
    hist,       \* per task invocation: what it has done so far
    writer,     \* per cache key: who wrote it last and what that write replaced
    disturbances, \* how many failures, deletions and edits have happened
    nIn,        \* the functions on their own: the input document
    nOut,       \* the functions on their own: the outputs computed so far
    nPc         \* the functions on their own: position

vars == <<now, advances, db, redis, counters, task, hist, writer, disturbances,
          nIn, nOut, nPc>>

taskVars == <<now, advances, db, redis, counters, task, hist, writer, disturbances>>

normVars == <<nIn, nOut, nPc>>

(***************************************************************************)
(* Bounds of the model and settings of the deployment                      *)
(***************************************************************************)
MaxAdvances == 1

MaxDisturbances == 1

TicksPerSecond == 2

PLAYLIST_COUNTER_PROCESSING_COOLDOWN_SECONDS == 1

THIRTY_SIX_HOURS_IN_SECONDS == 129600

max_retries == 2

(***************************************************************************)
(* Python values                                                           *)
(***************************************************************************)
None == [py_none |-> TRUE]

NoneStr == "None"

\* True and False where the field may also hold None
PyTrue == "True"

PyFalse == "False"

PyList(s) == [list |-> s]

EmptyDict == [k \in {} |-> NoneStr]

Has(d, k) == k \in DOMAIN d

\* dict.get(k, default)
Get(d, k, default) == IF k \in DOMAIN d THEN d[k] ELSE default

\* dict.pop(k, None), for its effect on the dict
Pop(d, k) == [j \in DOMAIN d \ {k} |-> d[j]]

TruthyStr(s) == s # NoneStr /\ s # ""

TruthySeq(s) == Len(s) > 0

\* a dict or object that is neither None nor empty
TruthyObj(d) == DOMAIN d # {} /\ ~("py_none" \in DOMAIN d)

\* json.dumps / json.loads: the cache holds a string, the task a dict
json_dumps(d) == [json |-> d]

json_loads(s) == s.json

\* datetime.isoformat / datetime.fromisoformat
isoformat(dt) == [iso |-> dt]

fromisoformat(s) == s.iso

(***************************************************************************)
(* The filter normalizer                                                   *)
(***************************************************************************)
DEFAULT_RECORDING_FILTERS ==
    [date_from |-> "-3d",
     date_to |-> NoneStr,
     filter_test_accounts |-> PyFalse,
     duration |-> << [type |-> "recording", key |-> "active_seconds",
                      value |-> 5, operator |-> "gt"] >>,
     order |-> "start_time"]

\* lines 116-125: the console-log level filter
log_level_filters(filters) ==
    IF TruthySeq(Get(filters, "console_logs", <<>>))
    THEN << [key |-> "level", value |-> filters["console_logs"],
             operator |-> "exact", type |-> "log_entry"] >>
    ELSE <<>>

\* the message filter appended whenever the key is there
log_query_filters_when_present(filters) ==
    IF Has(filters, "console_search_query")
    THEN << [key |-> "message", value |-> << filters["console_search_query"] >>,
             operator |-> "exact", type |-> "log_entry"] >>
    ELSE <<>>

\* lines 127-136: the console-log message filter
log_query_filters(filters) ==
    IF TruthyStr(Get(filters, "console_search_query", NoneStr))
    THEN << [key |-> "message", value |-> << filters["console_search_query"] >>,
             operator |-> "exact", type |-> "log_entry"] >>
    ELSE <<>>

\* lines 138-147: the duration predicate of a legacy document
legacy_duration(filters) ==
    IF TruthyObj(Get(filters, "session_recording_duration", EmptyDict))
    THEN LET srd == filters["session_recording_duration"]
             key == Get(filters, "duration_type_filter", Get(srd, "key", "active_seconds"))
         IN  << [k \in DOMAIN srd \cup {"key"} |-> IF k = "key" THEN key ELSE srd[k]] >>
    ELSE <<>>

\* lines 112-164: the universal document of a non-empty legacy document
legacy_to_universal(filters) ==
    LET events == Get(filters, "events", <<>>)
        actions == Get(filters, "actions", <<>>)
        properties == Get(filters, "properties", <<>>)
        duration == legacy_duration(filters)
    IN  [date_from |-> IF TruthyStr(Get(filters, "date_from", NoneStr))
                       THEN filters["date_from"]
                       ELSE DEFAULT_RECORDING_FILTERS["date_from"],
         date_to |-> IF TruthyStr(Get(filters, "date_to", NoneStr))
                     THEN filters["date_to"]
                     ELSE DEFAULT_RECORDING_FILTERS["date_to"],
         filter_test_accounts |->
             Get(filters, "filter_test_accounts",
                 DEFAULT_RECORDING_FILTERS["filter_test_accounts"]),
         duration |-> IF TruthySeq(duration) THEN duration
                      ELSE DEFAULT_RECORDING_FILTERS["duration"],
         filter_group |->
             [type |-> "AND",
              values |-> << [type |-> "AND",
                             values |-> events \o actions \o properties
                                        \o log_level_filters(filters)
                                        \o log_query_filters(filters)] >>],
         order |-> DEFAULT_RECORDING_FILTERS["order"]]

\* the normalizer without the early return of lines 109-110
convert_legacy_filters_without_empty_return(filters_arg) ==
    legacy_to_universal(IF TruthyObj(filters_arg) THEN filters_arg ELSE EmptyDict)

convert_legacy_filters_to_universal_filters(filters_arg) ==
    LET filters == IF TruthyObj(filters_arg) THEN filters_arg ELSE EmptyDict
    IN  IF ~TruthyObj(filters)
        THEN EmptyDict
        ELSE legacy_to_universal(filters)

(***************************************************************************)
(* The translator                                                          *)
(***************************************************************************)
asRecordingPropertyFilter(filter) ==
    [type |-> "recording", key |-> filter["key"],
     operator |-> filter["operator"], value |-> filter["value"]]

\* session_recording_api.filter_from_params_to_query: the query of a request
\* that carries these parameters
filter_from_params_to_query(filters) == [from_params |-> filters]

\* the document with version and hogql_filtering left in
keep_non_query_keys(filters) == filters

\* lines 176-178
strip_non_query_keys(filters) == Pop(Pop(filters, "version"), "hogql_filtering")

\* line 181-184: a non-empty document without filter_group is legacy
is_legacy(filters) == ~Has(filters, "filter_group") /\ TruthyObj(filters)

\* the check of line 194 asking for children of the first group as well
has_group_structure_with_children(filters) ==
    /\ TruthyObj(Get(filters, "filter_group", None))
    /\ TruthySeq(Get(filters["filter_group"], "values", <<>>))
    /\ TruthySeq(Get(filters["filter_group"]["values"][1], "values", <<>>))

\* line 194
has_group_structure(filters) ==
    /\ TruthyObj(Get(filters, "filter_group", None))
    /\ TruthySeq(Get(filters["filter_group"], "values", <<>>))

\* lines 196-198
extracted_filters(filters) ==
    LET group == filters["filter_group"]["values"][1]
    IN  IF TruthyObj(group) /\ TruthySeq(Get(group, "values", <<>>))
        THEN group["values"]
        ELSE <<>>

EmptyLists ==
    [events |-> <<>>, actions |-> <<>>, properties |-> <<>>,
     console_log_filters |-> <<>>, having_predicates |-> <<>>]

\* the pageview event that carries the operator "exact" whatever the leaf says
pageview_event_exact(f) ==
    [id |-> "$pageview", name |-> "$pageview", type |-> "events",
     properties |-> << [type |-> "event", key |-> "$current_url",
                        value |-> Get(f, "value", NoneStr),
                        operator |-> "exact"] >>]

\* lines 229-241: the event a visited_page leaf is rewritten into
pageview_event(f) ==
    [id |-> "$pageview", name |-> "$pageview", type |-> "events",
     properties |-> << [type |-> "event", key |-> "$current_url",
                        value |-> Get(f, "value", NoneStr),
                        operator |-> Get(f, "operator", NoneStr)] >>]

\* the test of line 243 without the value
is_snapshot_source_key(f) == Get(f, "key", NoneStr) = "snapshot_source"

\* line 243: f.get("key") == "snapshot_source" and f.get("value")
is_snapshot_source_predicate(f) ==
    /\ Get(f, "key", NoneStr) = "snapshot_source"
    /\ TruthyStr(Get(f, "value", NoneStr))

\* the dispatch loop without its fallback arm: a leaf of an unrecognized
\* type is placed nowhere
place_filter_known_types(acc, f) ==
    LET filter_type == Get(f, "type", NoneStr)
        add(list) == [acc EXCEPT ![list] = Append(@, f)]
    IN  CASE filter_type = "events" -> add("events")
          [] filter_type = "actions" -> add("actions")
          [] filter_type = "log_entry" -> add("console_log_filters")
          [] filter_type = "hogql" -> add("properties")
          [] filter_type = "recording" ->
                IF Get(f, "key", NoneStr) = "visited_page"
                THEN [acc EXCEPT !["events"] = Append(@, pageview_event(f))]
                ELSE IF is_snapshot_source_predicate(f)
                THEN add("having_predicates")
                ELSE add("properties")
          [] OTHER -> acc

\* lines 216-249: the body of the dispatch loop
place_filter(acc, f) ==
    LET filter_type == Get(f, "type", NoneStr)
        add(list) == [acc EXCEPT ![list] = Append(@, f)]
    IN  CASE filter_type = "events" -> add("events")
          [] filter_type = "actions" -> add("actions")
          [] filter_type = "log_entry" -> add("console_log_filters")
          [] filter_type = "hogql" -> add("properties")
          [] filter_type = "recording" ->
                IF Get(f, "key", NoneStr) = "visited_page"
                THEN [acc EXCEPT !["events"] = Append(@, pageview_event(f))]
                ELSE IF is_snapshot_source_predicate(f)
                THEN add("having_predicates")
                ELSE add("properties")
          [] OTHER -> add("properties")

RECURSIVE place_filters(_, _)
place_filters(acc, fs) ==
    IF fs = <<>> THEN acc ELSE place_filters(place_filter(acc, Head(fs)), Tail(fs))

\* the lists before the loop with every entry of the duration array taken
initial_lists_every_duration(filters) ==
    LET duration_filters == Get(filters, "duration", <<>>)
    IN  [EmptyLists EXCEPT !["having_predicates"] =
            [i \in DOMAIN duration_filters |->
                asRecordingPropertyFilter(duration_filters[i])]]

\* lines 202-212: the lists before the loop
initial_lists(filters) ==
    LET duration_filters == Get(filters, "duration", <<>>)
    IN  IF TruthySeq(duration_filters)
        THEN [EmptyLists EXCEPT !["having_predicates"] =
                << asRecordingPropertyFilter(duration_filters[1]) >>]
        ELSE EmptyLists

\* lines 253-264
RecordingsQuery(filters, lists) ==
    [order |-> Get(filters, "order", NoneStr),
     date_from |-> Get(filters, "date_from", NoneStr),
     date_to |-> Get(filters, "date_to", NoneStr),
     properties |-> lists["properties"],
     events |-> lists["events"],
     actions |-> lists["actions"],
     console_log_filters |-> lists["console_log_filters"],
     having_predicates |-> lists["having_predicates"],
     filter_test_accounts |-> Get(filters, "filter_test_accounts", NoneStr),
     operand |-> Get(Get(filters, "filter_group", EmptyDict), "type", "AND")]

(* convert_filters_to_recordings_query without its save: what the call     *)
(* leaves in playlist.filters, whether it persists them, what it returns   *)
(* and what it raises.                                                     *)
convert_filters_to_recordings_query(playlist_filters) ==
    LET stripped == strip_non_query_keys(playlist_filters)
        legacy == is_legacy(stripped)
        filters == IF legacy THEN convert_legacy_filters_to_universal_filters(stripped)
                   ELSE stripped
    IN  IF ~Has(stripped, "filter_group") /\ ~TruthyObj(stripped)
        THEN [raised |-> NoneStr, legacy |-> FALSE, filters |-> stripped,
              query |-> filter_from_params_to_query(stripped)]
        ELSE IF ~has_group_structure(filters)
        THEN [raised |-> "Exception", legacy |-> legacy, filters |-> filters,
              query |-> None]
        ELSE [raised |-> NoneStr, legacy |-> legacy, filters |-> filters,
              query |-> RecordingsQuery(filters,
                            place_filters(initial_lists(filters),
                                          extracted_filters(filters)))]

(***************************************************************************)
(* The world of the recomputation task                                     *)
(***************************************************************************)
\* the task invocations in flight
Tasks == {1, 2}

PlaylistIds == {1, 2}

\* the playlists that users delete or edit while the tasks run
EditedPlaylistIds == {1}

short_id_of(id) == IF id = 1 THEN "plA" ELSE "plB"

PLAYLIST_COUNT_REDIS_PREFIX == "@posthog/replay/playlist_filters_match_count::"

\* f"{PLAYLIST_COUNT_REDIS_PREFIX}{playlist.short_id}"
redis_key(short_id) == <<PLAYLIST_COUNT_REDIS_PREFIX, short_id>>

\* autoretry_for of the shared_task decorator
autoretry_for == {"CHQueryErrorTooManySimultaneousQueries"}

LegacyDoc ==
    [events |-> << [type |-> "events", id |-> "$pageview", name |-> "$pageview"] >>,
     console_search_query |-> "boom",
     version |-> "1"]

UniversalDoc ==
    [date_from |-> "-7d",
     date_to |-> NoneStr,
     filter_test_accounts |-> PyTrue,
     duration |-> << [type |-> "recording", key |-> "duration",
                      value |-> 60, operator |-> "gt"] >>,
     filter_group |->
         [type |-> "AND",
          values |-> << [type |-> "AND",
                         values |-> << [type |-> "recording", key |-> "visited_page",
                                        value |-> "/pricing", operator |-> "exact"],
                                       [type |-> "recording", key |-> "snapshot_source",
                                        value |-> "web", operator |-> "exact"] >>] >>],
     order |-> "console_error_count"]

InvalidDoc == [filter_group |-> [type |-> "AND", values |-> <<>>]]

\* the filter documents playlists are stored with
TaskDocs == <<DEFAULT_RECORDING_FILTERS, LegacyDoc, UniversalDoc, EmptyDict, InvalidDoc>>

\* what list_recordings_from_query may return: (recordings, more_recordings_available)
QueryResults ==
    { [session_ids |-> <<"s1">>, has_more |-> FALSE],
      [session_ids |-> <<"s2", "s1">>, has_more |-> TRUE] }

\* the failures the collaborators can raise, by the statement that calls them
FaultsAt(pc) ==
    CASE pc = "start" -> {"OperationalError"}
      [] pc = "loaded" -> {"ConnectionError"}
      [] pc = "convert" -> {"ValidationError"}
      [] pc = "execute" -> {"CHQueryErrorTooManySimultaneousQueries", "ServerException"}
      [] pc = "write" -> {"ConnectionError"}
      [] pc = "save" -> {"OperationalError"}
      [] OTHER -> {}

ErrorNames ==
    {"OperationalError", "ConnectionError", "ValidationError", "ServerException",
     "CHQueryErrorTooManySimultaneousQueries", "Exception", "DatabaseError", "DoesNotExist"}

failed_counter(cls) == <<"replay_playlist_count_failed", cls>>

skipped_counter(reason) == <<"replay_playlist_count_skipped", reason>>

SUCCEEDED == <<"replay_playlist_count_succeeded", "">>

UNKNOWN == <<"replay_playlist_count_unknown", "">>

LEGACY_FILTERS_CONVERTED == <<"replay_playlist_legacy_filters_converted", "">>

CounterNames ==
    {failed_counter(c) : c \in ErrorNames}
        \cup {skipped_counter("cooldown"), skipped_counter("default_filters")}
        \cup {SUCCEEDED, UNKNOWN, LEGACY_FILTERS_CONVERTED}

\* Counter.inc()
inc(cs, name) == [cs EXCEPT ![name] = @ + 1]

\* the time that may pass between two readings of the clock: none, a tick, the
\* cooldown, the cooldown and a second, the lifetime of a cache entry
Elapsed ==
    {0} \cup
    IF advances < MaxAdvances
    THEN {1, TicksPerSecond * PLAYLIST_COUNTER_PROCESSING_COOLDOWN_SECONDS,
          TicksPerSecond * (PLAYLIST_COUNTER_PROCESSING_COOLDOWN_SECONDS + 1),
          TicksPerSecond * THIRTY_SIX_HOURS_IN_SECONDS}
    ELSE {}

\* the clock is read d ticks after its last reading
ClockReads(d) ==
    /\ now' = now + d
    /\ advances' = IF d > 0 THEN advances + 1 ELSE advances

\* int(timedelta.total_seconds()): truncation toward zero
int_total_seconds(ticks) ==
    IF ticks >= 0 THEN ticks \div TicksPerSecond ELSE -((-ticks) \div TicksPerSecond)

\* line 307: the key the cooldown check reads
cache_key_read(playlist) == redis_key(playlist.short_id)

\* line 342 with the playlist's id in place of its short_id
cache_key_written_by_id(playlist) == redis_key(ToString(playlist.id))

\* line 342: the key the result is written to
cache_key_written(playlist) == redis_key(playlist.short_id)

\* redis GET: the value, or None once the entry has expired
redis_get(r, key, t_now) ==
    IF key \in DOMAIN r /\ t_now < r[key].expires_at THEN r[key].value ELSE None

\* SET with NX in place of SETEX: an entry that exists is kept
redis_setnx(r, key, seconds, value, t_now) ==
    r @@ (key :> [value |-> value, expires_at |-> t_now + seconds * TicksPerSecond])

\* redis SETEX: the entry is replaced whole
redis_setex(r, key, seconds, value, t_now) ==
    (key :> [value |-> value, expires_at |-> t_now + seconds * TicksPerSecond]) @@ r

\* the comparison of line 318 made strict
in_cooldown_strict(existing_value, t_now) ==
    /\ Has(existing_value, "refreshed_at")
    /\ int_total_seconds(t_now - fromisoformat(existing_value["refreshed_at"]))
          < PLAYLIST_COUNTER_PROCESSING_COOLDOWN_SECONDS

\* lines 314-318: has the cached record been refreshed within the cooldown
in_cooldown(existing_value, t_now) ==
    /\ Has(existing_value, "refreshed_at")
    /\ int_total_seconds(t_now - fromisoformat(existing_value["refreshed_at"]))
          <= PLAYLIST_COUNTER_PROCESSING_COOLDOWN_SECONDS

\* line 323 comparing with the normalized form of the defaults
is_default_filters_normalized(filters) ==
    filters = convert_legacy_filters_to_universal_filters(DEFAULT_RECORDING_FILTERS)

\* line 323
is_default_filters(filters) == filters = DEFAULT_RECORDING_FILTERS

\* line 337 reading previous_ids instead of session_ids
value_to_set_stale(recordings, existing_value, counted_at_date) ==
    json_dumps([session_ids |-> PyList(recordings.session_ids),
                has_more |-> recordings.has_more,
                previous_ids |-> Get(existing_value, "previous_ids", None),
                refreshed_at |-> isoformat(counted_at_date)])

\* lines 333-340: the record written to the cache
value_to_set(recordings, existing_value, counted_at_date) ==
    json_dumps([session_ids |-> PyList(recordings.session_ids),
                has_more |-> recordings.has_more,
                previous_ids |-> Get(existing_value, "session_ids", None),
                refreshed_at |-> isoformat(counted_at_date)])

InitFrame ==
    [pc |-> "idle", playlist_id |-> 0, playlist |-> None, existing_value |-> EmptyDict,
     query |-> None, recordings |-> None, counted_at |-> -1, retries |-> 0,
     raised |-> NoneStr]

InitHist ==
    [incs |-> <<>>, executions |-> 0, reads |-> <<>>, writes |-> <<>>, saves |-> <<>>,
     captures |-> <<>>, exceptions |-> <<>>, loaded_filters |-> None,
     checked_at |-> -1, outcome |-> NoneStr]

TaskInit ==
    /\ now = 0
    /\ advances = 0
    /\ \E i \in 1 .. Len(TaskDocs) :
          db = [id \in PlaylistIds |->
                  [exists |-> TRUE, short_id |-> short_id_of(id),
                   filters |-> IF id = 1 THEN TaskDocs[i] ELSE UniversalDoc,
                   last_counted_at |-> -1]]
    /\ redis = [k \in {} |-> None]
    /\ counters = [n \in CounterNames |-> 0]
    /\ task = [t \in Tasks |-> InitFrame]
    /\ hist = [t \in Tasks |-> InitHist]
    /\ writer = [k \in {} |-> None]
    /\ disturbances = 0

(***************************************************************************)
(* count_recordings_that_match_playlist_filters, statement by statement    *)
(***************************************************************************)
\* the task wrapper of shared_task, once the body has returned or raised:
\* autoretry_for and max_retries decide between another run and the end
returned(frame) ==
    IF frame.raised \in autoretry_for /\ frame.retries < max_retries
    THEN [InitFrame EXCEPT !.pc = "start", !.playlist_id = frame.playlist_id,
                           !.retries = frame.retries + 1]
    ELSE [frame EXCEPT !.pc = "done"]

\* the first except clause without its counter
on_does_not_exist_uncounted(frame, h, cs) ==
    [frame |-> returned(frame),
     hist |-> [h EXCEPT !.outcome = "unknown"],
     counters |-> cs]

\* lines 348-354: except SessionRecordingPlaylist.DoesNotExist
on_does_not_exist(frame, h, cs) ==
    [frame |-> returned(frame),
     hist |-> [h EXCEPT !.incs = Append(@, UNKNOWN), !.outcome = "unknown"],
     counters |-> inc(cs, UNKNOWN)]

\* line 380 without the label of the exception's class
on_exception_unlabelled(frame, h, cs, cls) ==
    [frame |-> returned(frame),
     hist |-> [h EXCEPT
                 !.captures =
                     Append(@, [error |-> cls,
                                playlist_id |-> frame.playlist_id,
                                playlist_short_id |->
                                    IF TruthyObj(frame.playlist)
                                    THEN frame.playlist.short_id ELSE NoneStr,
                                filters |->
                                    IF TruthyObj(frame.playlist)
                                    THEN frame.playlist.filters ELSE None,
                                query |-> frame.query]),
                 !.incs = Append(@, failed_counter("Exception")),
                 !.outcome = "failed"],
     counters |-> inc(cs, failed_counter("Exception"))]

\* lines 355-380: except Exception
on_exception(frame, h, cs, cls) ==
    [frame |-> returned(frame),
     hist |-> [h EXCEPT
                 !.captures =
                     Append(@, [error |-> cls,
                                playlist_id |-> frame.playlist_id,
                                playlist_short_id |->
                                    IF TruthyObj(frame.playlist)
                                    THEN frame.playlist.short_id ELSE NoneStr,
                                filters |->
                                    IF TruthyObj(frame.playlist)
                                    THEN frame.playlist.filters ELSE None,
                                query |-> frame.query]),
                 !.incs = Append(@, failed_counter(cls)),
                 !.outcome = "failed"],
     counters |-> inc(cs, failed_counter(cls))]

\* the body without its first except clause
handle_without_does_not_exist(frame, h, cs, cls) == on_exception(frame, h, cs, cls)

\* the except clause that catches an exception of class cls raised in the body
handle(frame, h, cs, cls) ==
    IF cls = "DoesNotExist" THEN on_does_not_exist(frame, h, cs)
    ELSE on_exception(frame, h, cs, cls)

\* an exception of class cls is raised in the body of the task
raise_in_body(frame, h, cs, cls) ==
    handle(frame, [h EXCEPT !.exceptions = Append(@, cls)], cs, cls)

Caught(t, r) ==
    /\ task' = [task EXCEPT ![t] = r.frame]
    /\ hist' = [hist EXCEPT ![t] = r.hist]
    /\ counters' = r.counters

\* count_recordings_that_match_playlist_filters.delay(playlist.id)
Delay(t, id) ==
    /\ task[t].pc = "idle"
    /\ \A u \in Tasks : u < t => task[u].pc # "idle"
    /\ task' = [task EXCEPT ![t].pc = "start", ![t].playlist_id = id]
    /\ UNCHANGED <<normVars, writer, now, advances, db, redis, counters, hist, disturbances>>

\* line 304: SessionRecordingPlaylist.objects.get(id=playlist_id)
LoadPlaylist(t) ==
    /\ task[t].pc = "start"
    /\ LET row == db[task[t].playlist_id]
       IN  IF row.exists
           THEN /\ task' = [task EXCEPT
                              ![t].pc = "loaded",
                              ![t].playlist =
                                  [id |-> task[t].playlist_id, short_id |-> row.short_id,
                                   filters |-> row.filters,
                                   last_counted_at |-> row.last_counted_at]]
                /\ hist' = [hist EXCEPT ![t].loaded_filters = row.filters]
                /\ UNCHANGED counters
           ELSE Caught(t, raise_in_body(task[t], hist[t], counters, "DoesNotExist"))
    /\ UNCHANGED <<normVars, writer, now, advances, db, redis, disturbances>>

\* lines 305-311: redis_client.get and json.loads
CacheGet(t) ==
    /\ task[t].pc = "loaded"
    /\ \E d \in Elapsed :
          LET key == cache_key_read(task[t].playlist)
              value == redis_get(redis, key, now + d)
          IN  /\ ClockReads(d)
              /\ task' = [task EXCEPT
                            ![t].pc = "read",
                            ![t].existing_value =
                                IF TruthyObj(value) THEN json_loads(value) ELSE EmptyDict]
              /\ hist' = [hist EXCEPT ![t].reads = Append(@, key)]
    /\ UNCHANGED <<normVars, writer, db, redis, counters, disturbances>>

\* lines 313-325: the two skips
CheckSkips(t) ==
    /\ task[t].pc = "read"
    /\ \E d \in Elapsed :
          LET t_now == IF Has(task[t].existing_value, "refreshed_at") THEN now + d ELSE now
              h == [hist[t] EXCEPT
                      !.checked_at =
                          IF Has(task[t].existing_value, "refreshed_at") THEN t_now ELSE @]
          IN  /\ ClockReads(t_now - now)
              /\ IF in_cooldown(task[t].existing_value, t_now)
                 THEN /\ counters' = inc(counters, skipped_counter("cooldown"))
                      /\ hist' = [hist EXCEPT
                                    ![t] = [h EXCEPT
                                              !.incs = Append(@, skipped_counter("cooldown")),
                                              !.outcome = "skipped_cooldown"]]
                      /\ task' = [task EXCEPT ![t] = returned(task[t])]
                 ELSE IF is_default_filters(task[t].playlist.filters)
                 THEN /\ counters' = inc(counters, skipped_counter("default_filters"))
                      /\ hist' = [hist EXCEPT
                                    ![t] = [h EXCEPT
                                              !.incs = Append(@, skipped_counter("default_filters")),
                                              !.outcome = "skipped_default_filters"]]
                      /\ task' = [task EXCEPT ![t] = returned(task[t])]
                 ELSE /\ hist' = [hist EXCEPT ![t] = h]
                      /\ task' = [task EXCEPT ![t].pc = "convert"]
                      /\ UNCHANGED counters
    /\ UNCHANGED <<normVars, writer, db, redis, disturbances>>

\* line 327: convert_filters_to_recordings_query(playlist), with the save of
\* lines 188-190 when the stored filters were legacy
Convert(t) ==
    /\ task[t].pc = "convert"
    /\ LET r == convert_filters_to_recordings_query(task[t].playlist.filters)
           id == task[t].playlist_id
           frame == [task[t] EXCEPT !.playlist.filters = r.filters]
       IN  IF r.legacy /\ ~db[id].exists
           THEN \* playlist.save(update_fields=["filters"]) updates no row
                /\ Caught(t, raise_in_body(frame, hist[t], counters, "DatabaseError"))
                /\ UNCHANGED db
           ELSE LET h == IF r.legacy
                         THEN [hist[t] EXCEPT
                                 !.saves = Append(@, [field |-> "filters",
                                                      value |-> r.filters]),
                                 !.incs = Append(@, LEGACY_FILTERS_CONVERTED)]
                         ELSE hist[t]
                    cs == IF r.legacy THEN inc(counters, LEGACY_FILTERS_CONVERTED)
                          ELSE counters
                IN  /\ db' = IF r.legacy THEN [db EXCEPT ![id].filters = r.filters] ELSE db
                    /\ IF r.raised # NoneStr
                       THEN Caught(t, raise_in_body(frame, h, cs, r.raised))
                       ELSE /\ task' = [task EXCEPT
                                          ![t] = [frame EXCEPT !.pc = "execute",
                                                               !.query = r.query]]
                            /\ hist' = [hist EXCEPT ![t] = h]
                            /\ counters' = cs
    /\ UNCHANGED <<normVars, writer, now, advances, redis, disturbances>>

\* lines 328-330: list_recordings_from_query(query, user=None, team=playlist.team)
Execute(t) ==
    /\ task[t].pc = "execute"
    /\ \E res \in QueryResults :
          task' = [task EXCEPT ![t].pc = "write", ![t].recordings = res]
    /\ hist' = [hist EXCEPT ![t].executions = @ + 1]
    /\ UNCHANGED <<normVars, writer, now, advances, db, redis, counters, disturbances>>

\* lines 332-343: datetime.now(), json.dumps and redis_client.setex
CacheSet(t) ==
    /\ task[t].pc = "write"
    /\ \E d \in Elapsed :
          LET t_now == now + d
              key == cache_key_written(task[t].playlist)
              value == value_to_set(task[t].recordings, task[t].existing_value, t_now)
          IN  /\ ClockReads(d)
              /\ redis' = redis_setex(redis, key, THIRTY_SIX_HOURS_IN_SECONDS, value, t_now)
              /\ hist' = [hist EXCEPT
                            ![t].writes =
                                Append(@, [key |-> key, value |-> value,
                                           seconds |-> THIRTY_SIX_HOURS_IN_SECONDS,
                                           at |-> t_now])]
              /\ writer' = (key :> [task |-> t, replaced |-> redis_get(redis, key, t_now)])
                               @@ writer
              /\ task' = [task EXCEPT ![t].pc = "save", ![t].counted_at = t_now]
    /\ UNCHANGED <<normVars, db, counters, disturbances>>

\* lines 344-347: playlist.save(update_fields=["last_counted_at"]) and the
\* succeeded counter
SaveCounted(t) ==
    /\ task[t].pc = "save"
    /\ LET id == task[t].playlist_id
           frame == [task[t] EXCEPT !.playlist.last_counted_at = task[t].counted_at]
       IN  IF db[id].exists
           THEN /\ db' = [db EXCEPT ![id].last_counted_at = task[t].counted_at]
                /\ task' = [task EXCEPT ![t] = returned(frame)]
                /\ hist' = [hist EXCEPT
                              ![t].saves = Append(@, [field |-> "last_counted_at",
                                                      value |-> task[t].counted_at]),
                              ![t].incs = Append(@, SUCCEEDED),
                              ![t].outcome = "succeeded"]
                /\ counters' = inc(counters, SUCCEEDED)
           ELSE /\ Caught(t, raise_in_body(frame, hist[t], counters, "DatabaseError"))
                /\ UNCHANGED db
    /\ UNCHANGED <<normVars, writer, now, advances, redis, disturbances>>

\* a collaborator (the database, redis, pydantic, the query engine) fails
Raise(t) ==
    /\ disturbances < MaxDisturbances
    /\ \E cls \in FaultsAt(task[t].pc) :
          Caught(t, raise_in_body(task[t],
                           [hist[t] EXCEPT !.executions =
                               IF task[t].pc = "execute" THEN @ + 1 ELSE @],
                           counters, cls))
    /\ disturbances' = disturbances + 1
    /\ UNCHANGED <<normVars, writer, now, advances, db, redis>>

(***************************************************************************)
(* The environment                                                         *)
(***************************************************************************)
\* the playlist is deleted between scheduling and execution
DeletePlaylist(id) ==
    /\ disturbances < MaxDisturbances
    /\ db[id].exists
    /\ db' = [db EXCEPT ![id].exists = FALSE]
    /\ disturbances' = disturbances + 1
    /\ UNCHANGED <<normVars, writer, now, advances, redis, counters, task, hist>>

\* the playlist's filters are reset to the defaults
ResetFilters(id) ==
    /\ disturbances < MaxDisturbances
    /\ db[id].exists
    /\ db[id].filters # DEFAULT_RECORDING_FILTERS
    /\ db' = [db EXCEPT ![id].filters = DEFAULT_RECORDING_FILTERS]
    /\ disturbances' = disturbances + 1
    /\ UNCHANGED <<normVars, writer, now, advances, redis, counters, task, hist>>

TaskNext ==
    \/ \E t \in Tasks, id \in PlaylistIds : Delay(t, id)
    \/ \E t \in Tasks : LoadPlaylist(t)
    \/ \E t \in Tasks : CacheGet(t)
    \/ \E t \in Tasks : CheckSkips(t)
    \/ \E t \in Tasks : Convert(t)
    \/ \E t \in Tasks : Execute(t)
    \/ \E t \in Tasks : CacheSet(t)
    \/ \E t \in Tasks : SaveCounted(t)
    \/ \E t \in Tasks : Raise(t)
    \/ \E id \in EditedPlaylistIds : DeletePlaylist(id)
    \/ \E id \in EditedPlaylistIds : ResetFilters(id)

NormIdle == nIn = EmptyDict /\ nOut = <<>> /\ nPc = "off"

Init == TaskInit /\ NormIdle

Next == TaskNext

Spec == Init /\ [][Next]_vars

(***************************************************************************)
(* The normalizer on its own: a document is drawn, normalized, and the     *)
(* result normalized again                                                 *)
(***************************************************************************)
\* a key of a document, present or left out
Opt(present, k, v) == IF present THEN k :> v ELSE EmptyDict

EventsChoices ==
    << <<>>,
       << [type |-> "events", id |-> "$pageview", name |-> "$pageview"] >>,
       << [type |-> "events", id |-> "$pageview", name |-> "$pageview"],
          [type |-> "events", id |-> "$autocapture", name |-> "$autocapture"] >> >>

ActionsChoices == << <<>>, << [type |-> "actions", id |-> "12", name |-> "signed up"] >> >>

PropertiesChoices ==
    << <<>>, << [type |-> "person", key |-> "email", value |-> "a@b.c",
                 operator |-> "icontains"] >> >>

ConsoleLogsChoices == << <<>>, <<"error">> >>

ConsoleSearchChoices == << NoneStr, "", "boom" >>

DurationChoices ==
    << EmptyDict,
       [type |-> "recording", key |-> "duration", value |-> 60, operator |-> "gt"],
       [type |-> "recording", value |-> 30, operator |-> "lt"] >>

GroupChoices ==
    << None,
       [type |-> "AND",
        values |-> << [type |-> "AND",
                       values |-> << [type |-> "recording", key |-> "visited_page",
                                      value |-> "/pricing", operator |-> "exact"] >>] >>] >>

\* the document with the chosen keys; the first choice of a key leaves it out
InputDoc(e, a, p, cl, cq, srd, dtf, df, dt, fta, ord, g) ==
    Opt(e > 1, "events", EventsChoices[e])
        @@ Opt(a > 1, "actions", ActionsChoices[a])
        @@ Opt(p > 1, "properties", PropertiesChoices[p])
        @@ Opt(cl > 1, "console_logs", ConsoleLogsChoices[cl])
        @@ Opt(cq > 1, "console_search_query", ConsoleSearchChoices[cq])
        @@ Opt(srd > 1, "session_recording_duration", DurationChoices[srd])
        @@ Opt(dtf, "duration_type_filter", "inactive_seconds")
        @@ Opt(df, "date_from", "-7d")
        @@ Opt(dt, "date_to", "2024-01-31")
        @@ Opt(fta, "filter_test_accounts", PyTrue)
        @@ Opt(ord, "order", "console_error_count")
        @@ Opt(g > 1, "filter_group", GroupChoices[g])

NormInit ==
    /\ TaskInit
    /\ db[1].filters = DEFAULT_RECORDING_FILTERS
    /\ \E e \in 1 .. Len(EventsChoices), a \in 1 .. Len(ActionsChoices),
          p \in 1 .. Len(PropertiesChoices), cl \in 1 .. Len(ConsoleLogsChoices),
          cq \in 1 .. Len(ConsoleSearchChoices), srd \in 1 .. Len(DurationChoices),
          g \in 1 .. Len(GroupChoices), dtf, df, dt, fta, ord \in BOOLEAN :
          nIn = InputDoc(e, a, p, cl, cq, srd, dtf, df, dt, fta, ord, g)
    /\ nOut = <<>>
    /\ nPc = "start"

\* convert_legacy_filters_to_universal_filters(x)
Normalize ==
    /\ nPc = "start"
    /\ nOut' = << convert_legacy_filters_to_universal_filters(nIn) >>
    /\ nPc' = "once"
    /\ UNCHANGED <<nIn, taskVars>>

\* convert_legacy_filters_to_universal_filters of the result
NormalizeAgain ==
    /\ nPc = "once"
    /\ nOut' = Append(nOut, convert_legacy_filters_to_universal_filters(nOut[1]))
    /\ nPc' = "done"
    /\ UNCHANGED <<nIn, taskVars>>

NormNext == Normalize \/ NormalizeAgain

SpecNorm == NormInit /\ [][NormNext]_vars

(***************************************************************************)
(* The translator on its own: a stored document is drawn and either        *)
(* translated or handed to the normalizer                                  *)
(***************************************************************************)
\* how many leaf filters the inner group of a drawn document holds at most
MaxLeaves == 2

\* the leaf filters of the drawn documents
Leaves ==
    << [type |-> "events", id |-> "$pageview", name |-> "$pageview"],
       [type |-> "actions", id |-> "12", name |-> "signed up"],
       [type |-> "log_entry", key |-> "level", value |-> <<"error">>, operator |-> "exact"],
       [type |-> "hogql", key |-> "1 = 1"],
       [type |-> "recording", key |-> "visited_page", value |-> "/pricing",
        operator |-> "exact"],
       [type |-> "recording", key |-> "visited_page", operator |-> "icontains"],
       [type |-> "recording", key |-> "snapshot_source", value |-> "web",
        operator |-> "exact"],
       [type |-> "recording", key |-> "snapshot_source", value |-> "",
        operator |-> "exact"],
       [type |-> "recording", key |-> "snapshot_source", value |-> NoneStr,
        operator |-> "exact"],
       [type |-> "recording", key |-> "snapshot_source", operator |-> "exact"],
       [type |-> "recording", key |-> "console_error_count", value |-> "2",
        operator |-> "gt"],
       [type |-> "person", key |-> "email", value |-> "a@b.c", operator |-> "icontains"],
       [key |-> "email", value |-> "a@b.c"] >>

\* the children of the inner group, by the indexes of the leaves
Children(idx) == [i \in DOMAIN idx |-> Leaves[idx[i]]]

\* the shapes of filter_group; the first leaves the key out
GroupShapes == 9

GroupOf(g, c) ==
    CASE g = 2 -> None
      [] g = 3 -> EmptyDict
      [] g = 4 -> [type |-> "AND"]
      [] g = 5 -> [type |-> "AND", values |-> <<>>]
      [] g = 6 -> [type |-> "AND", values |-> << [type |-> "AND", values |-> c] >>]
      [] g = 7 -> [type |-> "OR", values |-> << [type |-> "OR", values |-> c] >>]
      [] g = 8 -> [type |-> "AND", values |-> << [type |-> "AND"] >>]
      [] OTHER -> [type |-> "AND", values |-> << EmptyDict >>]

UniversalDurationChoices ==
    << <<>>,
       <<>>,
       << [type |-> "recording", key |-> "duration", value |-> 60, operator |-> "gt"] >>,
       << [type |-> "recording", key |-> "active_seconds", value |-> 10, operator |-> "gt"],
          [type |-> "recording", key |-> "duration", value |-> 60, operator |-> "lt"] >> >>

\* the other keys of the drawn documents
BaseChoices ==
    << EmptyDict,
       [version |-> "1", hogql_filtering |-> PyTrue],
       [date_from |-> "-7d", date_to |-> "2024-01-31", filter_test_accounts |-> PyTrue,
        order |-> "console_error_count", version |-> "1"] >>

StoredDoc(b, d, g, c) ==
    BaseChoices[b]
        @@ Opt(d > 1, "duration", UniversalDurationChoices[d])
        @@ Opt(g > 1, "filter_group", GroupOf(g, c))

TransInit ==
    /\ TaskInit
    /\ db[1].filters = DEFAULT_RECORDING_FILTERS
    /\ \/ nIn = None
       \/ \E b \in 1 .. Len(BaseChoices), d \in 1 .. Len(UniversalDurationChoices),
             g \in 1 .. GroupShapes, n \in 0 .. MaxLeaves :
             \E idx \in [1 .. n -> 1 .. Len(Leaves)] :
                 /\ g \in {6, 7} \/ n = 0
                 /\ nIn = StoredDoc(b, d, g, Children(idx))
    /\ nOut = <<>>
    /\ nPc = "start"

\* convert_filters_to_recordings_query(playlist); enqueue dispatches only
\* playlists whose filters are not null
Translate ==
    /\ nPc = "start"
    /\ ~Has(nIn, "py_none")
    /\ nOut' = << convert_filters_to_recordings_query(nIn) >>
    /\ nPc' = "translated"
    /\ UNCHANGED <<nIn, taskVars>>

\* convert_filters_to_recordings_query(playlist) once more, on the filters the
\* first call left in the playlist
TranslateAgain ==
    /\ nPc = "translated"
    /\ nOut' = Append(nOut, convert_filters_to_recordings_query(nOut[1].filters))
    /\ nPc' = "translated_again"
    /\ UNCHANGED <<nIn, taskVars>>

TransNext == Translate \/ TranslateAgain \/ Normalize

SpecTrans == TransInit /\ [][TransNext]_vars

(***************************************************************************)
(* The revenue example query over data-warehouse tables:                   *)
(* RevenueExampleDataWarehouseTablesQueryRunner                            *)
(***************************************************************************)
\* how many tables a drawn revenue tracking config lists at most
MaxTables == 2

\* the rows the limit context grants a query that asks for none
DefaultReturnedRows == 2

\* an Optional[int]: None is the empty sequence, n is <<n>>
NoneInt == <<>>

\* the entries of revenueTrackingConfig.dataWarehouseTables to draw from
TableConfigs ==
    << [tableName |-> "stripe_charges", revenueColumn |-> "amount",
        timestampColumn |-> "created_at"],
       [tableName |-> "orders", revenueColumn |-> "total",
        timestampColumn |-> "ordered_at"] >>

\* a row of the t-th table
WarehouseRow(t, revenue, timestamp) ==
    (TableConfigs[t].revenueColumn :> revenue)
        @@ (TableConfigs[t].timestampColumn :> timestamp)

\* what the t-th table may hold
RowsChoices(t) ==
    << <<>>,
       << WarehouseRow(t, 10, 1) >>,
       << WarehouseRow(t, 10, 1), WarehouseRow(t, 10, 2) >>,
       << WarehouseRow(t, 25, 1), WarehouseRow(t, 10, 2) >> >>

LimitChoices == << NoneInt, <<0>>, <<1>>, <<2>>, <<3>>, <<5>> >>

\* ast.SelectQuery.empty(): a select that returns no row
SelectQuery_empty ==
    [node |-> "SelectQuery",
     select |-> << [node |-> "Constant", value |-> 1] >>,
     where |-> [node |-> "Constant", value |-> FALSE]]

\* ast.SelectSetQuery.create_from_queries
create_from_queries(queries, set_operator) ==
    IF Len(queries) = 0
    THEN [raised |-> "IndexError", query |-> None]
    ELSE [raised |-> NoneStr,
          query |->
            [node |-> "SelectSetQuery",
             initial_select_query |-> queries[1],
             subsequent_select_queries |->
                [i \in 1 .. Len(queries) - 1 |->
                    [node |-> "SelectSetNode", set_operator |-> set_operator,
                     select_query |-> queries[i + 1]]]]]

\* lines 34-43: the select over one table
table_select_query(table) ==
    [node |-> "SelectQuery",
     select |->
        << [node |-> "Alias", alias |-> "table_name",
            expr |-> [node |-> "Constant", value |-> table.tableName]],
           [node |-> "Alias", alias |-> "revenue",
            expr |-> [node |-> "Field",
                      chain |-> <<table.tableName, table.revenueColumn>>]] >>,
     select_from |-> [node |-> "JoinExpr",
                      table |-> [node |-> "Field", chain |-> <<table.tableName>>]],
     order_by |->
        << [node |-> "OrderExpr",
            expr |-> [node |-> "Field",
                      chain |-> <<table.tableName, table.timestampColumn>>],
            order |-> "DESC"] >>]

\* lines 30-44: one select per configured table
data_warehouse_queries(tracking_config) ==
    LET tables == tracking_config.dataWarehouseTables
    IN  IF Has(tables, "list") /\ TruthySeq(tables.list)
        THEN [i \in 1 .. Len(tables.list) |-> table_select_query(tables.list[i])]
        ELSE <<>>

\* to_query without the return of lines 47-48
to_query_without_empty_return(query) ==
    create_from_queries(data_warehouse_queries(query.revenueTrackingConfig), "UNION ALL")

\* to_query combining with UNION DISTINCT
to_query_union_distinct(query) ==
    LET queries == data_warehouse_queries(query.revenueTrackingConfig)
    IN  IF Len(queries) = 0
        THEN [raised |-> NoneStr, query |-> SelectQuery_empty]
        ELSE create_from_queries(queries, "UNION DISTINCT")

\* lines 26-50; the result says what was raised, if anything, and what returned
to_query(query) ==
    LET queries == data_warehouse_queries(query.revenueTrackingConfig)
    IN  IF Len(queries) = 0
        THEN [raised |-> NoneStr, query |-> SelectQuery_empty]
        ELSE create_from_queries(queries, "UNION ALL")

\* the query engine: ORDER BY col DESC
RECURSIVE order_by_desc(_, _)
order_by_desc(rows, col) ==
    IF rows = <<>> THEN <<>>
    ELSE LET sorted == order_by_desc(Tail(rows), col)
             before == SelectSeq(sorted, LAMBDA r : r[col] > Head(rows)[col])
             after == SelectSeq(sorted, LAMBDA r : r[col] <= Head(rows)[col])
         IN  before \o << Head(rows) >> \o after

\* the query engine: the value of a select expression on a row of a table
eval_expr(expr, table_name, row) ==
    CASE expr.node = "Alias" ->
            IF expr.expr.node = "Constant" THEN expr.expr.value
            ELSE IF expr.expr.chain[1] = table_name THEN row[expr.expr.chain[2]]
            ELSE NoneStr
      [] OTHER -> expr.value

\* the query engine: the rows of one SelectQuery
run_select(q, warehouse) ==
    IF Has(q, "where") /\ q.where.value = FALSE
    THEN <<>>
    ELSE LET table_name == q.select_from.table.chain[1]
             rows == order_by_desc(warehouse[table_name], q.order_by[1].expr.chain[2])
         IN  [i \in 1 .. Len(rows) |->
                [c \in 1 .. Len(q.select) |-> eval_expr(q.select[c], table_name, rows[i])]]

\* the query engine: DISTINCT
RECURSIVE distinct_rows(_)
distinct_rows(rows) ==
    IF rows = <<>> THEN <<>>
    ELSE LET rest == distinct_rows(SubSeq(rows, 1, Len(rows) - 1))
             last == rows[Len(rows)]
         IN  IF \E i \in 1 .. Len(rest) : rest[i] = last THEN rest ELSE Append(rest, last)

\* the query engine: the set operations of a SelectSetQuery, left to right
RECURSIVE run_set_nodes(_, _, _)
run_set_nodes(acc, nodes, warehouse) ==
    IF nodes = <<>> THEN acc
    ELSE LET rows == acc \o run_select(Head(nodes).select_query, warehouse)
         IN  run_set_nodes(IF Head(nodes).set_operator = "UNION ALL" THEN rows
                           ELSE distinct_rows(rows),
                           Tail(nodes), warehouse)

\* the query engine: SELECT, UNION ALL, UNION DISTINCT
run_query(q, warehouse) ==
    IF q.node = "SelectQuery" THEN run_select(q, warehouse)
    ELSE run_set_nodes(run_select(q.initial_select_query, warehouse),
                       q.subsequent_select_queries, warehouse)

\* the limit handed over as it is
paginator_limit_as_given(query) == query.limit

\* line 23: limit=self.query.limit if self.query.limit else None
paginator_limit(query) ==
    IF query.limit # NoneInt /\ query.limit[1] # 0 THEN query.limit ELSE NoneInt

\* HogQLHasMorePaginator.from_limit_context: the default if no limit is given
from_limit_context(limit) ==
    [limit |-> IF limit = NoneInt THEN DefaultReturnedRows ELSE limit[1], offset |-> 0]

Min(a, b) == IF a <= b THEN a ELSE b

\* HogQLHasMorePaginator.execute_hogql_query: fetch limit + 1 rows in one
\* round trip, keep limit of them
execute_hogql_query(paginator, query, warehouse) ==
    LET matching == run_query(query, warehouse)
        fetched == SubSeq(matching, 1, Min(Len(matching), paginator.limit + 1))
    IN  [results |-> SubSeq(fetched, 1, Min(Len(fetched), paginator.limit)),
         fetched |-> Len(fetched),
         round_trips |-> 1,
         has_more |-> Len(fetched) > paginator.limit]

\* lines 20-24 and 52-69: the runner's response
calculate(query, warehouse) ==
    LET paginator == from_limit_context(paginator_limit(query))
        built == to_query(query)
    IN  IF built.raised # NoneStr
        THEN [raised |-> built.raised]
        ELSE LET response == execute_hogql_query(paginator, built.query, warehouse)
             IN  [raised |-> NoneStr,
                  columns |-> <<"table_name", "revenue">>,
                  results |-> response.results,
                  hasMore |-> response.has_more,
                  limit |-> paginator.limit,
                  offset |-> paginator.offset,
                  fetched |-> response.fetched,
                  round_trips |-> response.round_trips]

\* a runner is handed a query; the warehouse holds some rows
RevenueInit ==
    /\ TaskInit
    /\ db[1].filters = DEFAULT_RECORDING_FILTERS
    /\ \E l \in 1 .. Len(LimitChoices), d1 \in 1 .. Len(RowsChoices(1)),
          d2 \in 1 .. Len(RowsChoices(2)) :
          \E tables \in {None} \cup {PyList([i \in DOMAIN idx |-> TableConfigs[idx[i]]]) :
                                       idx \in UNION {[1 .. n -> 1 .. Len(TableConfigs)] :
                                                        n \in 0 .. MaxTables}} :
              nIn = [revenueTrackingConfig |-> [dataWarehouseTables |-> tables],
                     limit |-> LimitChoices[l],
                     warehouse |-> (TableConfigs[1].tableName :> RowsChoices(1)[d1])
                                    @@ (TableConfigs[2].tableName :> RowsChoices(2)[d2])]
    /\ nOut = <<>>
    /\ nPc = "start"

\* to_query()
ToQuery ==
    /\ nPc = "start"
    /\ nOut' = << to_query(nIn) >>
    /\ nPc' = "built"
    /\ UNCHANGED <<nIn, taskVars>>

\* the engine executes the query that to_query returned
RunQuery ==
    /\ nPc = "built"
    /\ nOut[1].raised = NoneStr
    /\ nOut' = Append(nOut, run_query(nOut[1].query, nIn.warehouse))
    /\ nPc' = "ran"
    /\ UNCHANGED <<nIn, taskVars>>

\* calculate()
Calculate ==
    /\ nPc = "start"
    /\ nOut' = << calculate(nIn, nIn.warehouse) >>
    /\ nPc' = "calculated"
    /\ UNCHANGED <<nIn, taskVars>>

RevenueNext == ToQuery \/ RunQuery \/ Calculate

SpecRevenue == RevenueInit /\ [][RevenueNext]_vars

(***************************************************************************)
(* Trends over a data-warehouse series: TrendsQueryBuilder with a          *)
(* DataWarehouseNode, as test_trends_data_warehouse_query.py runs it.      *)
(* Instants are hours since 2022-12-31 00:00, so that day d of January     *)
(* 2023 starts at d * HoursPerDay.                                         *)
(***************************************************************************)
\* how many rows of a drawn table fall on one day at most
MaxRowsPerDay == 2

HoursPerDay == 24

\* datetime(2023, 1, d)
datetime(d) == d * HoursPerDay

\* the days on which drawn tables have rows: 2022-12-31 .. 2023-01-08
TableDays == 0 .. 8

\* the days on which drawn tables have more than one row
BusyDays == {0, 1, 2, 5, 8}

\* create_parquet_file: the columns id and created of test_table_1
test_table_rows ==
    << [id |-> "1", created |-> datetime(1)],
       [id |-> "2", created |-> datetime(2)],
       [id |-> "3", created |-> datetime(3)],
       [id |-> "4", created |-> datetime(4)] >>

\* the rows of a drawn table on day d: the first at midnight as in the test's
\* table, the others later on the day
RowsOn(d, n) ==
    [h \in 1 .. n |-> [id |-> IF h = 1 THEN ToString(d)
                               ELSE ToString(d) \o "." \o ToString(h),
                       created |-> datetime(d) + 7 * (h - 1)]]

\* the table with perDay[d] rows on day d
RECURSIVE TableWith(_, _)
TableWith(perDay, d) ==
    IF d \notin TableDays THEN <<>>
    ELSE RowsOn(d, perDay[d]) \o TableWith(perDay, d + 1)

\* test_trends_data_warehouse: the query
test_trends_query(date_from) ==
    [kind |-> "TrendsQuery",
     dateRange |-> [date_from |-> date_from],
     interval |-> "day",
     series |-> << [kind |-> "DataWarehouseNode", id |-> "test_table_1",
                    table_name |-> "test_table_1", id_field |-> "id",
                    distinct_id_field |-> "customer_email",
                    timestamp_field |-> "created"] >>]

\* the windows drawn: (date_from, the frozen day the query runs on); the first
\* is the test's, 2023-01-01 and 2023-01-07
WindowChoices == << <<1, 7>>, <<2, 5>> >>

\* the start of the day without the truncation
toStartOfDay_identity(t) == t

\* toStartOfDay
toStartOfDay(t) == t - (t % HoursPerDay)

\* QueryDateRange: the days from date_from to now, each by its start
date_range_days(query, frozen_now) ==
    [i \in 1 .. (toStartOfDay(frozen_now) - datetime(query.dateRange.date_from))
                    \div HoursPerDay + 1
        |-> datetime(query.dateRange.date_from) + (i - 1) * HoursPerDay]

\* TrendsQueryBuilder.build_query executed: per day of the range, the count of
\* the rows of the series table whose timestamp field falls on the day
trends_total(query, frozen_now, warehouse) ==
    LET series == query.series[1]
        rows == warehouse[series.table_name]
        days == date_range_days(query, frozen_now)
    IN  [columns |-> <<"date", "total">>,
         results |->
            << << days,
                  [i \in 1 .. Len(days) |->
                      Cardinality({r \in 1 .. Len(rows) :
                          toStartOfDay(rows[r][series.timestamp_field]) = days[i]})] >> >>]

TrendsInit ==
    /\ TaskInit
    /\ db[1].filters = DEFAULT_RECORDING_FILTERS
    /\ \E w \in 1 .. Len(WindowChoices), perDay \in [TableDays -> 0 .. MaxRowsPerDay] :
          /\ \A d \in TableDays \ BusyDays : perDay[d] <= 1
          /\ nIn = [query |-> test_trends_query(WindowChoices[w][1]),
                    frozen_now |-> datetime(WindowChoices[w][2]),
                    warehouse |-> ("test_table_1" :> TableWith(perDay, 0))]
    /\ nOut = <<>>
    /\ nPc = "start"

\* get_response(trends_query) under freeze_time
RunTrends ==
    /\ nPc = "start"
    /\ nOut' = << trends_total(nIn.query, nIn.frozen_now, nIn.warehouse) >>
    /\ nPc' = "trends"
    /\ UNCHANGED <<nIn, taskVars>>

TrendsNext == RunTrends

SpecTrends == TrendsInit /\ [][TrendsNext]_vars

(***************************************************************************)
(* Trends over a data-warehouse series with property filters, a breakdown  *)
(* and declared joins, as the other tests of                               *)
(* test_trends_data_warehouse_query.py run it                              *)
(***************************************************************************)
\* create_parquet_file: a row of test_table_1 with all its columns
table_row(id, day, hour, prop_1, prop_2) ==
    [id |-> id, created |-> datetime(day) + hour, prop_1 |-> prop_1, prop_2 |-> prop_2]

\* create_parquet_file: test_table_1
test_table_1 ==
    << table_row("1", 1, 0, "a", "e"), table_row("2", 2, 0, "b", "f"),
       table_row("3", 3, 0, "c", "g"), table_row("4", 4, 0, "d", "h") >>

\* the tables drawn: the test's, and tables with fewer rows, with two rows that
\* share a value, and with rows outside the queried days
TableChoices ==
    << test_table_1,
       <<>>,
       test_table_1 \o << table_row("5", 1, 9, "a", "f") >>,
       << table_row("1", 1, 0, "a", "e"), table_row("2", 2, 0, "a", "e") >>,
       << table_row("0", 0, 0, "a", "e"), table_row("1", 1, 0, "a", "e"),
          table_row("8", 8, 0, "b", "e") >>,
       << table_row("2", 2, 0, "b", "e"), table_row("3", 2, 5, "a", "e"),
          table_row("4", 2, 7, "a", "g") >> >>

property_filter(key, value, type) ==
    [key |-> key, value |-> value, operator |-> "exact", type |-> type]

\* the property filter lists drawn; the third is that of
\* test_trends_with_multiple_property_types
PropertyListChoices ==
    << <<>>,
       << property_filter("prop_1", "a", "data_warehouse") >>,
       << property_filter("prop_1", "a", "data_warehouse"),
          property_filter("prop_2", "e", "data_warehouse"),
          property_filter("prop_1", "a", "event") >>,
       << property_filter("prop_1", "a", "event") >>,
       << property_filter("prop_1", "a", "data_warehouse"),
          property_filter("prop_2", "f", "data_warehouse") >>,
       << property_filter("email", "a@b.c", "person"),
          property_filter("prop_2", "e", "data_warehouse"),
          property_filter("prop_1", "zzz", "event") >> >>

\* _create_event
event_row(event, day, properties) ==
    [event |-> event, distinct_id |-> "1", timestamp |-> datetime(day),
     properties |-> properties]

\* the events drawn; the second list is that of
\* test_trends_breakdown_with_event_property
EventListChoices ==
    << <<>>,
       << event_row("a", 1, ("$feature/prop_1" :> "a")),
          event_row("b", 1, ("$feature/prop_1" :> "b")),
          event_row("c", 1, ("$feature/prop_1" :> "c")),
          event_row("d", 1, ("$feature/prop_1" :> "d")) >>,
       << event_row("a", 1, ("$feature/prop_1" :> "a")),
          event_row("a", 3, ("$feature/prop_1" :> "b")) >>,
       << event_row("b", 2, ("prop_1" :> "a")) >> >>

\* DataWarehouseJoin.objects.create
warehouse_join(joining_table_key, configuration) ==
    [source_table_name |-> "test_table_1", source_table_key |-> "prop_1",
     joining_table_name |-> "events", joining_table_key |-> joining_table_key,
     field_name |-> "events", configuration |-> configuration]

\* the configuration of an optimized join; the window says, in hours from the
\* source row's timestamp key, which joined rows are in range
experiments_optimized(from_hours, to_hours) ==
    [experiments_optimized |-> TRUE, experiments_timestamp_key |-> "created",
     window |-> <<from_hours, to_hours>>]

\* the declared joins drawn: none, that of
\* test_trends_breakdown_with_event_property, the same join optimized with two
\* windows, and that of test_trends_breakdown_with_events_join_experiments_optimized
JoinListChoices ==
    << <<>>,
       << warehouse_join("event", EmptyDict) >>,
       << warehouse_join("event", experiments_optimized(0, 48)) >>,
       << warehouse_join("event", experiments_optimized(0 - 24, 0)) >>,
       << warehouse_join("distinct_id", experiments_optimized(0, 48)) >> >>

\* BreakdownFilter(breakdown_type=DATA_WAREHOUSE, breakdown=...), as a field
\* chain; the first is no breakdown
BreakdownChoices ==
    << <<>>, <<"prop_1">>, <<"prop_2">>, <<"events", "properties", "$feature/prop_1">> >>

\* how the engine joins: the join type is the engine's and the builder's choice
JoinKinds == <<"LEFT JOIN", "INNER JOIN">>

\* the trends query of the tests
warehouse_trends_query(query_properties, series_properties, breakdown) ==
    [kind |-> "TrendsQuery",
     dateRange |-> [date_from |-> 1],
     interval |-> "day",
     properties |-> query_properties,
     breakdownFilter |-> [breakdown_type |-> "data_warehouse", breakdown |-> breakdown],
     series |-> << [kind |-> "DataWarehouseNode", id |-> "test_table_1",
                    table_name |-> "test_table_1", id_field |-> "id",
                    distinct_id_field |-> "customer_email",
                    timestamp_field |-> "created",
                    properties |-> series_properties] >>]

\* the value of a column of a row, null when the row has no such column
column(row, key) == IF key \in DOMAIN row THEN row[key] ELSE NoneStr

\* the property filters of a query: those of the query and those of its series
query_property_filters(query) == query.properties \o query.series[1].properties

\* property-type fan-out without the type test: every filter is applied
all_typed_filters(properties) == properties

\* property-type fan-out: the filters a warehouse-table query applies
data_warehouse_filters(properties) ==
    SelectSeq(properties, LAMBDA f : f.type = "data_warehouse")

\* the where clause of the warehouse query: all applied filters hold of the row
row_passes(row, filters) ==
    \A i \in DOMAIN filters : column(row, filters[i].key) = filters[i].value

is_experiments_optimized(join) ==
    /\ "experiments_optimized" \in DOMAIN join.configuration
    /\ join.configuration.experiments_optimized

\* the bound the optimized mode adds: the joined row's timestamp lies in the
\* window around the source row's timestamp key
in_comparison_window(join, row, joined) ==
    LET t == row[join.configuration.experiments_timestamp_key]
        w == join.configuration.window
    IN  t + w[1] <= joined.timestamp /\ joined.timestamp <= t + w[2]

\* the optimized join predicate with the bound in place of the key equality
join_predicate_window_only(join, row, joined) ==
    IF is_experiments_optimized(join) THEN in_comparison_window(join, row, joined)
    ELSE row[join.source_table_key] = joined[join.joining_table_key]

\* the join predicate: sourceKey = joiningKey, and the bound when optimized
join_predicate(join, row, joined) ==
    /\ row[join.source_table_key] = joined[join.joining_table_key]
    /\ is_experiments_optimized(join) => in_comparison_window(join, row, joined)

\* the (source row, joined row) pairs a join matches, by position
matched_pairs(join, rows, joined_rows) ==
    {p \in (DOMAIN rows) \X (DOMAIN joined_rows) :
        join_predicate(join, rows[p[1]], joined_rows[p[2]])}

\* a breakdown chain crosses a join boundary when it is dotted
references_join(chain) == Len(chain) > 1

\* resolve: the declared joins whose result field is the chain's qualifier
resolve(declared_joins, chain) ==
    SelectSeq(declared_joins, LAMBDA j : j.field_name = chain[1])

\* the breakdown values of one row: its column, or the property of each joined
\* row it matches (one null for an unmatched row under a left join)
breakdown_values(row, chain, join, joined_rows, join_kind) ==
    IF ~references_join(chain) THEN << column(row, chain[1]) >>
    ELSE LET matches == SelectSeq(joined_rows, LAMBDA e : join_predicate(join, row, e))
         IN  IF Len(matches) = 0
             THEN IF join_kind = "LEFT JOIN" THEN << NoneStr >> ELSE <<>>
             ELSE [k \in DOMAIN matches |-> column(matches[k].properties, chain[3])]

\* the rows the query groups: one per passing row and breakdown value
RECURSIVE grouped_rows(_, _, _, _, _, _, _)
grouped_rows(rows, from, filters, chain, join, joined_rows, join_kind) ==
    IF from > Len(rows) THEN <<>>
    ELSE LET row == rows[from]
             values == IF ~row_passes(row, filters) THEN <<>>
                       ELSE IF Len(chain) = 0 THEN << NoneStr >>
                       ELSE breakdown_values(row, chain, join, joined_rows, join_kind)
         IN  [k \in DOMAIN values |-> [created |-> row.created, breakdown |-> values[k]]]
             \o grouped_rows(rows, from + 1, filters, chain, join, joined_rows, join_kind)

\* the breakdown values in the order the series are returned in
BreakdownValueOrder == <<"a", "b", "c", "d", "e", "f", "g", "h", NoneStr>>

\* the per-day counts of the grouped rows that carry a breakdown value
day_counts(grouped, days, value) ==
    [i \in DOMAIN days |->
        Cardinality({r \in DOMAIN grouped :
            /\ grouped[r].breakdown = value
            /\ toStartOfDay(grouped[r].created) = days[i]})]

\* one series per breakdown value without looking at which values occur
series_per_possible_value(values, grouped) == values

\* one series per distinct breakdown value among the grouped rows
series_per_distinct_value(values, grouped) ==
    SelectSeq(values, LAMBDA v : \E r \in DOMAIN grouped : grouped[r].breakdown = v)

\* the where clause on the timestamp field: the rows of the queried days
rows_of_days(rows, series, days) ==
    SelectSeq(rows, LAMBDA r :
        \E i \in DOMAIN days : toStartOfDay(r[series.timestamp_field]) = days[i])

\* the trends query built and executed over the warehouse table, the events
\* and the declared joins
warehouse_trends(query, frozen_now, rows, events, declared_joins, join_kind) ==
    LET chain == query.breakdownFilter.breakdown
        joins == IF references_join(chain) THEN resolve(declared_joins, chain) ELSE <<>>
        days == date_range_days(query, frozen_now)
        filters == data_warehouse_filters(query_property_filters(query))
    IN  IF references_join(chain) /\ Len(joins) = 0
        THEN [raised |-> "UnresolvableJoinReference", results |-> <<>>]
        ELSE LET join == IF Len(joins) = 0 THEN None ELSE joins[1]
                 grouped == grouped_rows(rows_of_days(rows, query.series[1], days), 1,
                                         filters, chain, join, events, join_kind)
                 values == series_per_distinct_value(BreakdownValueOrder, grouped)
             IN  [raised |-> NoneStr,
                  results |->
                    IF Len(chain) = 0
                    THEN << [days |-> days, data |-> day_counts(grouped, days, NoneStr),
                             breakdown_value |-> NoneStr] >>
                    ELSE [k \in DOMAIN values |->
                            [days |-> days, data |-> day_counts(grouped, days, values[k]),
                             breakdown_value |-> values[k]]]]

WarehouseTrendsInit ==
    /\ TaskInit
    /\ db[1].filters = DEFAULT_RECORDING_FILTERS
    /\ \E t \in DOMAIN TableChoices, p \in DOMAIN PropertyListChoices,
          onSeries \in BOOLEAN, b \in DOMAIN BreakdownChoices,
          e \in DOMAIN EventListChoices, j \in DOMAIN JoinListChoices,
          k \in DOMAIN JoinKinds :
          nIn = [query |-> IF onSeries
                           THEN warehouse_trends_query(<<>>, PropertyListChoices[p],
                                                       BreakdownChoices[b])
                           ELSE warehouse_trends_query(PropertyListChoices[p], <<>>,
                                                       BreakdownChoices[b]),
                 frozen_now |-> datetime(7),
                 rows |-> TableChoices[t],
                 events |-> EventListChoices[e],
                 joins |-> JoinListChoices[j],
                 join_kind |-> JoinKinds[k]]
    /\ nOut = <<>>
    /\ nPc = "start"

\* get_response(trends_query) under freeze_time
RunWarehouseTrends ==
    /\ nPc = "start"
    /\ nOut' = << warehouse_trends(nIn.query, nIn.frozen_now, nIn.rows, nIn.events,
                                   nIn.joins, nIn.join_kind) >>
    /\ nPc' = "warehouse_trends"
    /\ UNCHANGED <<nIn, taskVars>>

\* the join resolver on its own: the pairs each declared join matches
ResolveJoins ==
    /\ nPc = "start"
    /\ Len(nIn.joins) > 0
    /\ nOut' = << [pairs |-> matched_pairs(nIn.joins[1], nIn.rows, nIn.events)] >>
    /\ nPc' = "resolved"
    /\ UNCHANGED <<nIn, taskVars>>

WarehouseTrendsNext == RunWarehouseTrends \/ ResolveJoins

SpecWarehouseTrends == WarehouseTrendsInit /\ [][WarehouseTrendsNext]_vars

(***************************************************************************)
(* enqueue_recordings_that_match_playlist_filters                          *)
(***************************************************************************)
\* the slice [:60000] of the queryset, scaled to the tables drawn
QuerysetLimit == 2

\* timedelta(hours=2)
CountAgainAfterHours == 2

\* timezone.now(), in hours
EnqueueNow == 10

\* the values of settings.PLAYLIST_COUNTER_PROCESSING_MAX_ALLOWED_TEAM_ID drawn:
\* unset, a string, and integers
SettingChoices ==
    << [kind |-> "NoneType", value |-> 0], [kind |-> "str", value |-> 2],
       [kind |-> "int", value |-> 0], [kind |-> "int", value |-> 1],
       [kind |-> "int", value |-> 2] >>

\* bool(x) of a setting: None and 0 are false, a non-empty string is true
truthy(setting) ==
    CASE setting.kind = "NoneType" -> FALSE
      [] setting.kind = "int" -> setting.value # 0
      [] OTHER -> TRUE

\* isinstance(x, int)
isinstance_int(setting) == setting.kind = "int"

\* the first check of the setting: raise unless it is a true value and an int
setting_is_rejected(setting) == ~truthy(setting) \/ ~isinstance_int(setting)

\* a row of SessionRecordingPlaylist, last_counted_at in hours before now
playlist_row(id, team_id, deleted, filters, counted_hours_ago) ==
    [id |-> id, team_id |-> team_id, deleted |-> deleted, filters |-> filters,
     last_counted_at |-> IF counted_hours_ago = NoneInt THEN NoneInt
                         ELSE << EnqueueNow - counted_hours_ago[1] >>]

\* never counted, and counted 4, 3, 2 hours and 1 hour ago
CountedChoices == << NoneInt, <<4>>, <<3>>, <<2>>, <<1>> >>

\* not deleted with filters, deleted, and without filters
PlaylistStateChoices ==
    << [deleted |-> FALSE, filters |-> DEFAULT_RECORDING_FILTERS],
       [deleted |-> TRUE, filters |-> DEFAULT_RECORDING_FILTERS],
       [deleted |-> FALSE, filters |-> None] >>

\* Q(last_counted_at__lt=...) with the bound included
last_counted_at_or_before(playlist, at) ==
    \/ playlist.last_counted_at = NoneInt
    \/ playlist.last_counted_at[1] <= at - CountAgainAfterHours

\* Q(last_counted_at__isnull=True) | Q(last_counted_at__lt=now - 2 hours)
last_counted_before(playlist, at) ==
    \/ playlist.last_counted_at = NoneInt
    \/ playlist.last_counted_at[1] < at - CountAgainAfterHours

\* the two filter() calls of the queryset
queryset_matches(playlist, setting, at) ==
    /\ playlist.team_id <= setting.value
    /\ playlist.deleted = FALSE
    /\ ~Has(playlist.filters, "py_none")
    /\ last_counted_before(playlist, at)

\* F("last_counted_at").asc(nulls_first=True): a comes no later than b
orders_before(a, b) ==
    \/ a.last_counted_at = NoneInt
    \/ b.last_counted_at # NoneInt /\ a.last_counted_at[1] <= b.last_counted_at[1]

\* the orders the database may return the matching rows in: sorted, rows with
\* equal keys in any order
queryset_orders(table, setting, at) ==
    LET matching == {i \in DOMAIN table : queryset_matches(table[i], setting, at)}
    IN  {o \in [1 .. Cardinality(matching) -> matching] :
            /\ \A a, b \in DOMAIN o : o[a] = o[b] => a = b
            /\ \A a, b \in DOMAIN o : a < b => orders_before(table[o[a]], table[o[b]])}

\* what a call leaves: the exception raised, the task invocations queued and
\* REPLAY_TEAM_PLAYLISTS_IN_TEAM_COUNT
enqueue_outcome(raised, delayed) ==
    [raised |-> raised, delayed |-> delayed, in_team_count |-> Len(delayed)]

\* enqueue_recordings_that_match_playlist_filters, the rows returned in order
enqueue_recordings_that_match_playlist_filters(setting, table, order) ==
    IF setting_is_rejected(setting)
    THEN enqueue_outcome("PLAYLIST_COUNTER_PROCESSING_MAX_ALLOWED_TEAM_ID is not set", <<>>)
    ELSE IF setting.value = 0 THEN enqueue_outcome(NoneStr, <<>>)
    ELSE enqueue_outcome(NoneStr,
            [i \in 1 .. Min(QuerysetLimit, Len(order)) |-> table[order[i]].id])

EnqueueInit ==
    /\ TaskInit
    /\ db[1].filters = DEFAULT_RECORDING_FILTERS
    /\ \E s \in DOMAIN SettingChoices,
          s1, s2 \in DOMAIN PlaylistStateChoices, t1, t2 \in 1 .. 2,
          c1, c2, c3 \in DOMAIN CountedChoices, third \in BOOLEAN :
          /\ ~third => c3 = 1
          /\ nIn = [setting |-> SettingChoices[s],
                    now |-> EnqueueNow,
                    table |->
                       << playlist_row(1, t1, PlaylistStateChoices[s1].deleted,
                                       PlaylistStateChoices[s1].filters, CountedChoices[c1]),
                          playlist_row(2, t2, PlaylistStateChoices[s2].deleted,
                                       PlaylistStateChoices[s2].filters, CountedChoices[c2]) >>
                       \o IF third
                          THEN << playlist_row(3, 1, FALSE, DEFAULT_RECORDING_FILTERS,
                                               CountedChoices[c3]) >>
                          ELSE <<>>]
    /\ nOut = <<>>
    /\ nPc = "start"

\* the scheduled call
Enqueue ==
    /\ nPc = "start"
    /\ \E order \in queryset_orders(nIn.table, nIn.setting, nIn.now) :
          nOut' = << enqueue_recordings_that_match_playlist_filters(
                        nIn.setting, nIn.table, order) >>
    /\ nPc' = "enqueued"
    /\ UNCHANGED <<nIn, taskVars>>

EnqueueNext == Enqueue

SpecEnqueue == EnqueueInit /\ [][EnqueueNext]_vars

(***************************************************************************)
(* Creation of projects: PremiumMultiProjectPermissions and                *)
(* TeamSerializer.create                                                   *)
(***************************************************************************)
\* the create requests in flight
MaxRequests == 3

Requests == 1 .. MaxRequests

\* the plans drawn: without the organizations-projects feature, with it and no
\* limit, and with it and a limit of 1 and of 2
OrganizationChoices ==
    << [feature_available |-> FALSE, limit |-> NoneInt],
       [feature_available |-> TRUE, limit |-> NoneInt],
       [feature_available |-> TRUE, limit |-> <<1>>],
       [feature_available |-> TRUE, limit |-> <<2>>] >>

\* organization.teams.exclude(is_demo=True).count()
non_demo_project_count(teams) == Cardinality({i \in DOMAIN teams : ~teams[i].is_demo})

\* organization.teams.filter(is_demo=True).count()
demo_project_count(teams) == Cardinality({i \in DOMAIN teams : teams[i].is_demo})

\* PremiumMultiProjectPermissions.has_permission for a create action
has_permission(organization, teams, is_demo) ==
    IF ~is_demo
    THEN IF organization.feature_available
         THEN IF organization.limit = NoneInt THEN TRUE
              ELSE ~(non_demo_project_count(teams) >= organization.limit[1])
         ELSE ~(non_demo_project_count(teams) >= 1)
    ELSE ~(demo_project_count(teams) > 0)

ProjectsInit ==
    /\ TaskInit
    /\ db[1].filters = DEFAULT_RECORDING_FILTERS
    /\ \E o \in DOMAIN OrganizationChoices, demo \in [Requests -> BOOLEAN] :
          nIn = [organization |-> OrganizationChoices[o],
                 requests |-> [r \in Requests |-> [is_demo |-> demo[r]]]]
    /\ nOut = <<>>
    /\ nPc = [r \in Requests |-> "request"]

\* the permission check of a create request, on the teams there are now
HasPermission(r) ==
    /\ nPc[r] = "request"
    /\ nPc' = [nPc EXCEPT ![r] =
                  IF has_permission(nIn.organization, nOut, nIn.requests[r].is_demo)
                  THEN "permitted" ELSE "denied"]
    /\ UNCHANGED <<nIn, nOut, taskVars>>

\* TeamSerializer.create: Team.objects.create_with_data
Create(r) ==
    /\ nPc[r] = "permitted"
    /\ nOut' = Append(nOut, [is_demo |-> nIn.requests[r].is_demo, created_by |-> r])
    /\ nPc' = [nPc EXCEPT ![r] = "created"]
    /\ UNCHANGED <<nIn, taskVars>>

ProjectsNext ==
    \/ \E r \in Requests : HasPermission(r)
    \/ \E r \in Requests : Create(r)

SpecProjects == ProjectsInit /\ [][ProjectsNext]_vars

(***************************************************************************)
(* Properties of the recomputation task                                    *)
(***************************************************************************)
Range(seq) == {seq[i] : i \in 1 .. Len(seq)}

\* the cached record the invocation read, when it read one with refreshed_at
ReadRefreshedAt(t) == fromisoformat(task[t].existing_value["refreshed_at"])

\* the invocation has compared the clock with a cached refreshed_at
CheckedCooldown(t) ==
    hist[t].checked_at >= 0 /\ Has(task[t].existing_value, "refreshed_at")

\* C1: an invocation that reads a cached record whose refreshed_at lies at most
\* the cooldown before the clock reading of line 316 ends there: it executes no
\* query, writes neither the cache nor the playlist, reports nothing and
\* increments only the skipped counter labelled cooldown.
C1_CooldownSkip ==
    \A t \in Tasks :
        (/\ CheckedCooldown(t)
         /\ hist[t].checked_at - ReadRefreshedAt(t)
               <= PLAYLIST_COUNTER_PROCESSING_COOLDOWN_SECONDS * TicksPerSecond)
        => /\ task[t].pc = "done"
           /\ hist[t].outcome = "skipped_cooldown"
           /\ hist[t].executions = 0
           /\ hist[t].writes = <<>>
           /\ hist[t].saves = <<>>
           /\ hist[t].captures = <<>>
           /\ hist[t].incs = << skipped_counter("cooldown") >>

\* an invocation skipped at the very end of the cooldown
C1_Witness ==
    \E t \in Tasks :
        /\ CheckedCooldown(t)
        /\ hist[t].checked_at - ReadRefreshedAt(t)
              = PLAYLIST_COUNTER_PROCESSING_COOLDOWN_SECONDS * TicksPerSecond
        /\ hist[t].outcome = "skipped_cooldown"

\* C2: an invocation that loaded a playlist whose stored filters equal
\* DEFAULT_RECORDING_FILTERS never executes a query and never writes the cache,
\* whatever it found in the cache.
C2_DefaultFiltersNeverRun ==
    \A t \in Tasks :
        hist[t].loaded_filters = DEFAULT_RECORDING_FILTERS
        => hist[t].executions = 0 /\ hist[t].writes = <<>>

\* a default-filter playlist skipped although its cached record had left the cooldown
C2_Witness ==
    \E t \in Tasks :
        /\ hist[t].loaded_filters = DEFAULT_RECORDING_FILTERS
        /\ hist[t].outcome = "skipped_default_filters"
        /\ CheckedCooldown(t)
        /\ hist[t].checked_at - ReadRefreshedAt(t)
              > PLAYLIST_COUNTER_PROCESSING_COOLDOWN_SECONDS * TicksPerSecond

\* C3: an invocation whose query execution raised
\* CHQueryErrorTooManySimultaneousQueries is re-run, and counts as failed only
\* once its max_retries retries are used up; no other failure is retried.
C3_OverloadIsRetried ==
    \A t \in Tasks :
        /\ failed_counter("CHQueryErrorTooManySimultaneousQueries") \in Range(hist[t].incs)
              => task[t].retries = max_retries
        /\ task[t].retries > 0
              => "CHQueryErrorTooManySimultaneousQueries" \in Range(hist[t].exceptions)

\* C4: an invocation that succeeded wrote one cache record, with the
\* session_ids of the record it read as previous_ids (None when it read none),
\* the result of its query as session_ids and has_more, and as refreshed_at the
\* instant it saved as last_counted_at; the succeeded counter is incremented
\* last, after both writes.
C4_SuccessfulWrite ==
    \A t \in Tasks :
        (hist[t].outcome = "succeeded" \/ SUCCEEDED \in Range(hist[t].incs))
        => /\ Len(hist[t].writes) = 1
           /\ LET record == json_loads(hist[t].writes[1].value)
                  n == Len(hist[t].saves)
              IN  /\ record["previous_ids"] =
                        (IF Has(task[t].existing_value, "session_ids")
                         THEN task[t].existing_value["session_ids"] ELSE None)
                  /\ record["session_ids"] = PyList(task[t].recordings.session_ids)
                  /\ record["has_more"] = task[t].recordings.has_more
                  /\ n >= 1
                  /\ hist[t].saves[n] =
                        [field |-> "last_counted_at",
                         value |-> fromisoformat(record["refreshed_at"])]
           /\ hist[t].incs[Len(hist[t].incs)] = SUCCEEDED
           /\ Cardinality({i \in 1 .. Len(hist[t].incs) : hist[t].incs[i] = SUCCEEDED}) = 1

\* a success that replaced a record read at the start
C4_Witness ==
    \E t \in Tasks :
        /\ hist[t].outcome = "succeeded"
        /\ Has(task[t].existing_value, "session_ids")
        /\ json_loads(hist[t].writes[1].value)["previous_ids"] # None

\* C5: an invocation that ends failed or unknown has not written the cache.
C5_FailedLeavesCache ==
    \A t \in Tasks :
        hist[t].outcome \in {"failed", "unknown"} => hist[t].writes = <<>>

\* what capture_exception is given for an exception of class cls
Reported(t, cls) ==
    \E i \in 1 .. Len(hist[t].captures) :
        LET c == hist[t].captures[i]
        IN  /\ c.error = cls
            /\ c.playlist_id = task[t].playlist_id
            /\ c.filters = (IF TruthyObj(task[t].playlist)
                            THEN task[t].playlist.filters ELSE None)
            /\ c.query = task[t].query

\* nothing escapes the body and nothing is retried
ReturnedNormally(t) ==
    task[t].raised = NoneStr /\ task[t].retries = 0 /\ task[t].pc = "done"

\* C6 as stated: every exception raised in the body, whichever it is, is
\* reported with the playlist id, the filters and the query and counted as
\* failed under its class name, and the task returns normally.
C6_EveryExceptionReported ==
    \A t \in Tasks :
        \A cls \in Range(hist[t].exceptions) :
            /\ ReturnedNormally(t)
            /\ Reported(t, cls)
            /\ failed_counter(cls) \in Range(hist[t].incs)

\* C6 amended: every exception raised in the body other than
\* SessionRecordingPlaylist.DoesNotExist is reported with the playlist id, the
\* filters and the query and counted as failed under its class name; no
\* exception, DoesNotExist included, escapes the body.
C6_ExceptionsReported ==
    \A t \in Tasks :
        \A cls \in Range(hist[t].exceptions) :
            /\ ReturnedNormally(t)
            /\ cls # "DoesNotExist"
                  => /\ Reported(t, cls)
                     /\ failed_counter(cls) \in Range(hist[t].incs)
                     /\ hist[t].outcome = "failed"

\* a failure of the query engine reported with the query that was built
C6_Witness ==
    \E t \in Tasks :
        /\ hist[t].exceptions = <<"ServerException">>
        /\ hist[t].outcome = "failed"
        /\ TruthyObj(task[t].query)

\* C7: when the playlist does not exist as the task loads it, the invocation
\* ends with the unknown counter incremented and nothing else: no cache read or
\* write, no query, no report, no failed counter.
C7_OwnerMissing ==
    \A t \in Tasks :
        "DoesNotExist" \in Range(hist[t].exceptions)
        => /\ task[t].pc = "done"
           /\ hist[t].outcome = "unknown"
           /\ hist[t].incs = << UNKNOWN >>
           /\ hist[t].reads = <<>>
           /\ hist[t].writes = <<>>
           /\ hist[t].saves = <<>>
           /\ hist[t].executions = 0
           /\ hist[t].captures = <<>>

C7_Witness ==
    \E t \in Tasks :
        /\ hist[t].outcome = "unknown"
        /\ ~db[task[t].playlist_id].exists
        /\ counters[UNKNOWN] = 1

\* every cache entry is the whole record of one write, that of the last writer
WholeRecordOfLastWriter ==
    \A k \in DOMAIN redis :
        /\ k \in DOMAIN writer
        /\ LET w == hist[writer[k].task].writes
           IN  /\ Len(w) = 1
               /\ w[1].key = k
               /\ redis[k] = [value |-> w[1].value,
                              expires_at |-> w[1].at + w[1].seconds * TicksPerSecond]

\* every write replaces the record its writer read: previous_ids of the entry
\* are the session_ids of the entry it replaced
ReplacesWhatItRead ==
    \A k \in DOMAIN redis :
        TruthyObj(writer[k].replaced)
        => json_loads(redis[k].value)["previous_ids"]
              = json_loads(writer[k].replaced)["session_ids"]

\* C8 as stated: whole records, last writer wins, and the race of two
\* invocations has no effect but a repeated query.
C8_RaceOnlyRepeatsQuery == WholeRecordOfLastWriter /\ ReplacesWhatItRead

\* C8 amended: under any interleaving the cache entry is absent or the whole
\* record of the invocation that wrote last.  (The race lets several
\* invocations execute the query within one cooldown and lets a record
\* replace one its writer never read.)
C8_WholeRecordLastWriter == WholeRecordOfLastWriter

\* two invocations of one playlist both executed and wrote within one cooldown
C8_Witness ==
    \E t, u \in Tasks :
        /\ t # u
        /\ task[t].playlist_id = task[u].playlist_id
        /\ hist[t].executions = 1 /\ hist[u].executions = 1
        /\ Len(hist[t].writes) = 1 /\ Len(hist[u].writes) = 1
        /\ hist[u].writes[1].at - hist[t].writes[1].at
              \in 0 .. PLAYLIST_COUNTER_PROCESSING_COOLDOWN_SECONDS * TicksPerSecond
        /\ writer[hist[u].writes[1].key].task = u

\* C9: every record written is a JSON object of exactly the four keys, under
\* the prefix followed by the playlist's short_id, with 36 hours to live, and
\* the key read for the cooldown check is that same key.
C9_WireFormat ==
    \A t \in Tasks :
        \A i \in 1 .. Len(hist[t].writes) :
            LET w == hist[t].writes[i]
                short_id == db[task[t].playlist_id].short_id
            IN  /\ DOMAIN json_loads(w.value)
                      = {"session_ids", "has_more", "previous_ids", "refreshed_at"}
                /\ w.key = <<PLAYLIST_COUNT_REDIS_PREFIX, short_id>>
                /\ w.seconds = 36 * 60 * 60
                /\ hist[t].reads = << w.key >>
                /\ w.key \in DOMAIN redis
                /\ redis[w.key].expires_at >= w.at + 36 * 60 * 60 * TicksPerSecond

C9_Witness ==
    \E t \in Tasks :
        /\ Len(hist[t].writes) = 1
        /\ task[t].playlist_id = 2
        /\ redis_key("plB") \in DOMAIN redis
        /\ ~(redis_key("plA") \in DOMAIN redis)

(***************************************************************************)
(* Properties of the normalizer                                            *)
(***************************************************************************)
\* C10: normalizing the result of the normalizer changes nothing, and a
\* document that has a filter_group is returned as it is.
C10_NormalizerIdempotent ==
    nPc = "done"
    => IF Has(nIn, "filter_group") THEN nOut[1] = nIn ELSE nOut[2] = nOut[1]

\* a non-empty document without filter_group has been normalized
NormalizedLegacy == nPc # "start" /\ nPc # "translated" /\ TruthyObj(nIn) /\ ~Has(nIn, "filter_group")

\* 1 if the input's console_logs is a non-empty list
LevelCount(x) == IF Has(x, "console_logs") /\ Len(x["console_logs"]) > 0 THEN 1 ELSE 0

\* 1 if the input's console_search_query is a non-empty string
QueryCount(x) ==
    IF Has(x, "console_search_query") /\ x["console_search_query"] \notin {NoneStr, ""}
    THEN 1 ELSE 0

\* the list stored under key k, empty when the key is left out
ListOf(x, k) == IF Has(x, k) THEN x[k] ELSE <<>>

\* C11: for every non-empty legacy document the normalizer returns a
\* filter_group that is one AND group holding exactly one inner AND group, whose
\* children are the input's events, actions and properties, then one level
\* filter if console_logs is truthy, then one message filter if
\* console_search_query is truthy, so that their number is the sum of the five.
C11_GroupShape ==
    NormalizedLegacy
    => LET fg == nOut[1]["filter_group"]
           inner == fg["values"][1]
           e == ListOf(nIn, "events")
           a == ListOf(nIn, "actions")
           p == ListOf(nIn, "properties")
           n == Len(e) + Len(a) + Len(p)
       IN  /\ DOMAIN fg = {"type", "values"}
           /\ fg["type"] = "AND"
           /\ Len(fg["values"]) = 1
           /\ DOMAIN inner = {"type", "values"}
           /\ inner["type"] = "AND"
           /\ Len(inner["values"]) = n + LevelCount(nIn) + QueryCount(nIn)
           /\ SubSeq(inner["values"], 1, Len(e)) = e
           /\ SubSeq(inner["values"], Len(e) + 1, Len(e) + Len(a)) = a
           /\ SubSeq(inner["values"], Len(e) + Len(a) + 1, n) = p
           /\ LevelCount(nIn) = 1
                => /\ inner["values"][n + 1]["key"] = "level"
                   /\ inner["values"][n + 1]["value"] = nIn["console_logs"]
           /\ QueryCount(nIn) = 1
                => /\ inner["values"][n + LevelCount(nIn) + 1]["key"] = "message"
                   /\ inner["values"][n + LevelCount(nIn) + 1]["value"]
                          = << nIn["console_search_query"] >>

C11_Witness ==
    /\ NormalizedLegacy
    /\ Len(ListOf(nIn, "events")) = 2
    /\ Len(ListOf(nIn, "actions")) = 1
    /\ Len(ListOf(nIn, "properties")) = 1
    /\ LevelCount(nIn) = 1
    /\ QueryCount(nIn) = 1
    /\ Len(nOut[1]["filter_group"]["values"][1]["values"]) = 6

\* C12: the normalizer returns the empty document for {} and for None, with no
\* defaults in it, and the translator on a playlist whose filters are empty
\* neither raises nor persists anything and returns the query
\* filter_from_params_to_query builds from the empty document.
C12_EmptyInEmptyOut ==
    /\ (nPc = "once" /\ ~TruthyObj(nIn)) => DOMAIN nOut[1] = {}
    /\ (nPc = "translated" /\ DOMAIN nIn = {})
          => /\ nOut[1].raised = NoneStr
             /\ ~nOut[1].legacy
             /\ DOMAIN nOut[1].filters = {}
             /\ nOut[1].query = filter_from_params_to_query(EmptyDict)

C12_WitnessNone == nPc = "once" /\ Has(nIn, "py_none") /\ DOMAIN nOut[1] = {}

C12_Witness == nPc = "translated" /\ DOMAIN nIn = {} /\ nOut[1].raised = NoneStr

\* the value the output holds under k when the input's value is carried over
\* if the key is there and the default stands in if it is not
CarriedOrDefault(k, default) == nOut[1][k] = (IF Has(nIn, k) THEN nIn[k] ELSE default)

\* the same for the duration, which a legacy document keeps under
\* session_recording_duration
DurationCarriedOrDefault ==
    IF Has(nIn, "session_recording_duration")
    THEN /\ Len(nOut[1]["duration"]) = 1
         /\ nOut[1]["duration"][1]["value"] = nIn["session_recording_duration"]["value"]
         /\ nOut[1]["duration"][1]["operator"]
                = nIn["session_recording_duration"]["operator"]
    ELSE nOut[1]["duration"]
            = << [type |-> "recording", key |-> "active_seconds",
                  value |-> 5, operator |-> "gt"] >>

\* the defaults of every key but order
DefaultsExceptOrder ==
    NormalizedLegacy
    => /\ CarriedOrDefault("date_from", "-3d")
       /\ CarriedOrDefault("date_to", NoneStr)
       /\ CarriedOrDefault("filter_test_accounts", PyFalse)
       /\ DurationCarriedOrDefault

\* C13: in the normalized form of a non-empty legacy document, each of
\* date_from, date_to, filter_test_accounts, duration and order holds the
\* input's value if the input has the key and its default ("-3d", null, false,
\* the active_seconds > 5 predicate, "start_time") if it has not.
C13_NormalizerDefaults ==
    /\ DefaultsExceptOrder
    /\ NormalizedLegacy => CarriedOrDefault("order", "start_time")

(***************************************************************************)
(* Properties of the translator                                            *)
(***************************************************************************)
\* the document has an outer group whose first inner group lists leaves
HasLeaves(x) ==
    /\ Has(x, "filter_group")
    /\ Has(x["filter_group"], "values")
    /\ Len(x["filter_group"]["values"]) > 0
    /\ Has(x["filter_group"]["values"][1], "values")

LeavesOf(x) == x["filter_group"]["values"][1]["values"]

\* a document with leaves has been translated
TranslatedLeaves == nPc = "translated" /\ HasLeaves(nIn)

IsRecordingLeaf(f, key) ==
    /\ Has(f, "type") /\ f["type"] = "recording"
    /\ Has(f, "key") /\ f["key"] = key

\* the value of a leaf under k, None if the leaf has no such key
LeafGet(f, k) == IF Has(f, k) THEN f[k] ELSE NoneStr

PageviewFor(f) ==
    [id |-> "$pageview", name |-> "$pageview", type |-> "events",
     properties |-> << [type |-> "event", key |-> "$current_url",
                        value |-> LeafGet(f, "value"),
                        operator |-> LeafGet(f, "operator")] >>]

\* how many entries of seq satisfy P
Count(seq, P(_)) == Cardinality({i \in 1 .. Len(seq) : P(seq[i])})

\* C14: every recording leaf with key visited_page becomes exactly one entry of
\* the query's events, the $pageview event filter whose only property is
\* {type event, key $current_url, value and operator of the leaf}, and the leaf
\* itself is in neither properties nor having_predicates.
C14_VisitedPage ==
    TranslatedLeaves
    => LET q == nOut[1].query
           L == LeavesOf(nIn)
           IsVisited(f) == IsRecordingLeaf(f, "visited_page")
           IsEventLeaf(f) == Has(f, "type") /\ f["type"] = "events"
       IN  /\ Len(q.events) = Count(L, IsEventLeaf) + Count(L, IsVisited)
           /\ \A i \in 1 .. Len(L) :
                IsVisited(L[i])
                => LET Same(f) == IsVisited(f) /\ PageviewFor(f) = PageviewFor(L[i])
                       IsIt(e) == e = PageviewFor(L[i])
                   IN  /\ Count(q.events, IsIt) = Count(L, Same)
                       /\ L[i] \notin Range(q.properties)
                       /\ L[i] \notin Range(q.having_predicates)

C14_Witness ==
    /\ TranslatedLeaves
    /\ Len(LeavesOf(nIn)) = 2
    /\ IsRecordingLeaf(LeavesOf(nIn)[1], "visited_page")
    /\ LeavesOf(nIn)[1]["value"] = "/pricing"
    /\ IsRecordingLeaf(LeavesOf(nIn)[2], "visited_page")
    /\ ~Has(LeavesOf(nIn)[2], "value")
    /\ Len(nOut[1].query.events) = 2
    /\ nOut[1].query.properties = <<>>

\* C15: a recording leaf with key snapshot_source is in having_predicates and
\* not in properties when its value is truthy, and in properties and not in
\* having_predicates when its value is empty, null or missing.
C15_SnapshotSource ==
    TranslatedLeaves
    => LET q == nOut[1].query
           L == LeavesOf(nIn)
       IN  \A i \in 1 .. Len(L) :
             IsRecordingLeaf(L[i], "snapshot_source")
             => LET IsIt(f) == f = L[i]
                IN  IF LeafGet(L[i], "value") \notin {NoneStr, ""}
                    THEN /\ Count(q.having_predicates, IsIt) = Count(L, IsIt)
                         /\ L[i] \notin Range(q.properties)
                    ELSE /\ Count(q.properties, IsIt) = Count(L, IsIt)
                         /\ L[i] \notin Range(q.having_predicates)

C15_Witness ==
    /\ TranslatedLeaves
    /\ Len(LeavesOf(nIn)) = 2
    /\ IsRecordingLeaf(LeavesOf(nIn)[1], "snapshot_source")
    /\ LeafGet(LeavesOf(nIn)[1], "value") = ""
    /\ IsRecordingLeaf(LeavesOf(nIn)[2], "snapshot_source")
    /\ LeafGet(LeavesOf(nIn)[2], "value") = "web"
    /\ nOut[1].query.properties = << LeavesOf(nIn)[1] >>
    /\ Len(nOut[1].query.having_predicates) = 2
    /\ nOut[1].query.having_predicates[2] = LeavesOf(nIn)[2]

C15_WitnessMissing ==
    /\ TranslatedLeaves
    /\ Len(LeavesOf(nIn)) = 1
    /\ IsRecordingLeaf(LeavesOf(nIn)[1], "snapshot_source")
    /\ ~Has(LeavesOf(nIn)[1], "value")
    /\ nOut[1].query.properties = LeavesOf(nIn)

\* the document has a key besides the two the translator strips
NonEmptyDoc(x) == DOMAIN x \ {"version", "hogql_filtering", "py_none"} # {}

\* filter_group is there but null, empty, or without a non-empty values list
GroupUnusable(x) ==
    /\ Has(x, "filter_group")
    /\ \/ ~Has(x["filter_group"], "values")
       \/ Len(x["filter_group"]["values"]) = 0

\* there is a first inner group and it has no children
InnerGroupEmpty(x) ==
    /\ Has(x, "filter_group")
    /\ Has(x["filter_group"], "values")
    /\ Len(x["filter_group"]["values"]) > 0
    /\ \/ ~Has(x["filter_group"]["values"][1], "values")
       \/ Len(x["filter_group"]["values"][1]["values"]) = 0

RaisedWithoutQuery == nOut[1].raised = "Exception" /\ nOut[1].query = None

\* a query was returned whose lists hold no leaf filter
QueryWithoutLeaves ==
    /\ nOut[1].raised = NoneStr
    /\ nOut[1].query.events = <<>>
    /\ nOut[1].query.actions = <<>>
    /\ nOut[1].query.properties = <<>>
    /\ nOut[1].query.console_log_filters = <<>>
    /\ Len(nOut[1].query.having_predicates) <= 1

\* C16 as claimed: the translator raises, and returns no query, for every
\* non-empty document whose filter_group is missing, null, or has an empty or
\* missing values list, while a document whose inner group has no children
\* yields a query with empty filter lists.
C16_NoGroupRaises ==
    (nPc = "translated" /\ NonEmptyDoc(nIn))
    => /\ (~Has(nIn, "filter_group") \/ GroupUnusable(nIn)) => RaisedWithoutQuery
       /\ InnerGroupEmpty(nIn) => QueryWithoutLeaves

\* C16: the translator raises, and returns no query, for every document whose
\* filter_group is there but null, empty, or with an empty or missing values
\* list; a non-empty document without the filter_group key is taken for a legacy
\* document, normalized and translated without an error; a document whose inner
\* group has no children yields a query without leaf filters.
C16_UnusableGroupRaises ==
    (nPc = "translated" /\ NonEmptyDoc(nIn))
    => /\ GroupUnusable(nIn) => RaisedWithoutQuery /\ ~nOut[1].legacy
       /\ ~Has(nIn, "filter_group")
            => /\ nOut[1].raised = NoneStr
               /\ nOut[1].legacy
               /\ Has(nOut[1].filters, "filter_group")
               /\ Has(nOut[1].query, "having_predicates")
       /\ InnerGroupEmpty(nIn) => QueryWithoutLeaves

C16_Witness ==
    /\ nPc = "translated"
    /\ Has(nIn, "date_from")
    /\ Has(nIn, "filter_group")
    /\ Has(nIn["filter_group"], "values")
    /\ Len(nIn["filter_group"]["values"]) = 0
    /\ RaisedWithoutQuery

C16_WitnessEmptyInner ==
    nPc = "translated" /\ NonEmptyDoc(nIn) /\ InnerGroupEmpty(nIn) /\ QueryWithoutLeaves

(***************************************************************************)
(* Properties of the revenue example query                                 *)
(***************************************************************************)
\* the configured tables, none if the config holds null
ConfiguredTables ==
    IF Has(nIn.revenueTrackingConfig.dataWarehouseTables, "list")
    THEN nIn.revenueTrackingConfig.dataWarehouseTables.list
    ELSE <<>>

\* the rows the warehouse holds in the listed tables, a table counted as often
\* as it is listed
RECURSIVE TotalRows(_)
TotalRows(tables) ==
    IF tables = <<>> THEN 0
    ELSE Len(nIn.warehouse[Head(tables).tableName]) + TotalRows(Tail(tables))

\* to_query has returned or raised
Built == nPc \in {"built", "ran"}

\* C17: with no data-warehouse tables in the revenue tracking config (an empty
\* list or null) to_query raises nothing and returns ast.SelectQuery.empty(),
\* never a SelectSetQuery, and that query yields no row.
C17_NoTablesEmptySelect ==
    /\ (Built /\ ConfiguredTables = <<>>)
          => /\ nOut[1].raised = NoneStr
             /\ nOut[1].query.node = "SelectQuery"
             /\ nOut[1].query = SelectQuery_empty
    /\ (nPc = "ran" /\ ConfiguredTables = <<>>) => Len(nOut[2]) = 0
    /\ (nPc = "calculated" /\ ConfiguredTables = <<>>)
          => /\ nOut[1].raised = NoneStr
             /\ Len(nOut[1].results) = 0
             /\ ~nOut[1].hasMore

C17_Witness ==
    /\ nPc = "ran"
    /\ nIn.revenueTrackingConfig.dataWarehouseTables = None
    /\ Len(nIn.warehouse["orders"]) = 2
    /\ nOut[1].query = SelectQuery_empty
    /\ nOut[2] = <<>>

C17_WitnessEmptyList ==
    /\ nPc = "ran"
    /\ Has(nIn.revenueTrackingConfig.dataWarehouseTables, "list")
    /\ ConfiguredTables = <<>>
    /\ nOut[2] = <<>>

\* the select nodes of a SelectSetQuery, in order
SelectNodes(q) ==
    << q.initial_select_query >>
        \o [i \in 1 .. Len(q.subsequent_select_queries) |->
                q.subsequent_select_queries[i].select_query]

\* the node selects the constant table name and the revenue column of the
\* table, from that table, newest first
ReadsOnly(node, table) ==
    /\ node.node = "SelectQuery"
    /\ DOMAIN node = {"node", "select", "select_from", "order_by"}
    /\ Len(node.select) = 2
    /\ node.select[1].alias = "table_name"
    /\ node.select[1].expr = [node |-> "Constant", value |-> table.tableName]
    /\ node.select[2].alias = "revenue"
    /\ node.select[2].expr
          = [node |-> "Field", chain |-> <<table.tableName, table.revenueColumn>>]
    /\ node.select_from.table = [node |-> "Field", chain |-> <<table.tableName>>]
    /\ Len(node.order_by) = 1
    /\ node.order_by[1].expr
          = [node |-> "Field", chain |-> <<table.tableName, table.timestampColumn>>]
    /\ node.order_by[1].order = "DESC"

RECURSIVE SumOfLens(_)
SumOfLens(seqs) == IF seqs = <<>> THEN 0 ELSE Len(Head(seqs)) + SumOfLens(Tail(seqs))

\* C18: for n >= 1 configured tables to_query builds n SelectQuery nodes, the
\* i-th reading only the i-th table, combined with UNION ALL, and the combined
\* query returns as many rows as the n single-table queries together.
C18_UnionAllOfTables ==
    (Built /\ ConfiguredTables # <<>>)
    => LET q == nOut[1].query
           nodes == SelectNodes(q)
       IN  /\ nOut[1].raised = NoneStr
           /\ q.node = "SelectSetQuery"
           /\ Len(nodes) = Len(ConfiguredTables)
           /\ \A i \in 1 .. Len(nodes) : ReadsOnly(nodes[i], ConfiguredTables[i])
           /\ \A i \in 1 .. Len(q.subsequent_select_queries) :
                q.subsequent_select_queries[i].set_operator = "UNION ALL"
           /\ nPc = "ran"
                => /\ Len(nOut[2])
                        = SumOfLens([i \in 1 .. Len(nodes) |->
                                        run_query(nodes[i], nIn.warehouse)])
                   /\ Len(nOut[2]) = TotalRows(ConfiguredTables)

C18_Witness ==
    /\ nPc = "ran"
    /\ Len(ConfiguredTables) = 2
    /\ ConfiguredTables[1] = ConfiguredTables[2]
    /\ Len(nIn.warehouse[ConfiguredTables[1].tableName]) = 2
    /\ Len(nOut[2]) = 4
    /\ nOut[2][1] = nOut[2][2]

\* the limit in force: the query's, or the default if it gives none or 0
EffectiveLimit ==
    IF nIn.limit = <<>> THEN DefaultReturnedRows
    ELSE IF nIn.limit[1] = 0 THEN DefaultReturnedRows
    ELSE nIn.limit[1]

\* C19: with effective limit L and a query that matches m rows, calculate
\* fetches at most L + 1 rows in one round trip, returns min(m, L) rows and
\* reports hasMore exactly when m > L.
C19_HasMorePagination ==
    nPc = "calculated"
    => LET m == TotalRows(ConfiguredTables)
           L == EffectiveLimit
       IN  /\ nOut[1].raised = NoneStr
           /\ nOut[1].fetched <= L + 1
           /\ nOut[1].round_trips = 1
           /\ Len(nOut[1].results) = (IF m <= L THEN m ELSE L)
           /\ nOut[1].hasMore = (m > L)
           /\ nOut[1].limit = L

C19_Witness ==
    /\ nPc = "calculated"
    /\ nIn.limit = <<0>>
    /\ TotalRows(ConfiguredTables) > DefaultReturnedRows
    /\ nOut[1].hasMore
    /\ Len(nOut[1].results) = DefaultReturnedRows

C19_WitnessLastPage ==
    /\ nPc = "calculated"
    /\ nIn.limit = <<3>>
    /\ TotalRows(ConfiguredTables) = 3
    /\ ~nOut[1].hasMore
    /\ Len(nOut[1].results) = 3

(***************************************************************************)
(* Properties of trends over a data-warehouse series                       *)
(***************************************************************************)
RECURSIVE SumSeq(_)
SumSeq(seq) == IF seq = <<>> THEN 0 ELSE Head(seq) + SumSeq(Tail(seq))

\* the rows of the series table
TrendsRows == nIn.warehouse[nIn.query.series[1].table_name]

\* the day of January 2023 an instant falls on
DayOf(t) == t \div 24

FirstDay == nIn.query.dateRange.date_from

LastDay == DayOf(nIn.frozen_now)

\* the rows whose timestamp falls on day d
RowsOfDay(d) == {r \in 1 .. Len(TrendsRows) : DayOf(TrendsRows[r].created) = d}

\* C20: a trends query over one data-warehouse series without filters returns
\* for each day of the window the number of rows whose timestamp falls on that
\* day, 0 where there is none, so the counts add up to the rows inside the
\* window; for one row on each of 2023-01-01..04 and the window
\* 2023-01-01..07 that is [1,1,1,1,0,0,0].
C20_DailyCounts ==
    nPc = "trends"
    => LET total == nOut[1].results[1][2]
       IN  /\ Len(nOut[1].results) = 1
           /\ Len(total) = LastDay - FirstDay + 1
           /\ \A i \in 1 .. Len(total) :
                total[i] = Cardinality(RowsOfDay(FirstDay + i - 1))
           /\ SumSeq(total)
                = Cardinality({r \in 1 .. Len(TrendsRows) :
                                  /\ DayOf(TrendsRows[r].created) >= FirstDay
                                  /\ DayOf(TrendsRows[r].created) <= LastDay})
           /\ (TrendsRows = test_table_rows /\ FirstDay = 1 /\ LastDay = 7)
                => total = <<1, 1, 1, 1, 0, 0, 0>>

C20_Witness ==
    /\ nPc = "trends"
    /\ TrendsRows = test_table_rows
    /\ FirstDay = 1
    /\ LastDay = 7
    /\ nOut[1].results[1][2] = <<1, 1, 1, 1, 0, 0, 0>>

C20_WitnessTwoOnADay ==
    /\ nPc = "trends"
    /\ FirstDay = 2
    /\ Cardinality(RowsOfDay(1)) = 1
    /\ Cardinality(RowsOfDay(2)) = 2
    /\ Cardinality(RowsOfDay(6)) = 1
    /\ nOut[1].results[1][2][1] = 2

(***************************************************************************)
(* Properties of trends with property filters, breakdowns and joins        *)
(***************************************************************************)
\* the filters of a list that are typed data_warehouse
OnlyWarehouseTyped(properties) ==
    SelectSeq(properties, LAMBDA f : f.type = "data_warehouse")

\* the query with only its data_warehouse-typed filters
WithOnlyWarehouseTyped(query) ==
    [query EXCEPT !.properties = OnlyWarehouseTyped(@),
                  !.series = << [@[1] EXCEPT !.properties = OnlyWarehouseTyped(@)] >>]

HasMixedTypes(query) ==
    LET fs == query.properties \o query.series[1].properties
    IN  /\ \E i \in DOMAIN fs : fs[i].type = "data_warehouse"
        /\ \E i \in DOMAIN fs : fs[i].type # "data_warehouse"

\* C21: a warehouse trends query with property filters of mixed types builds
\* without an error of its filters, gives the result of the same query with
\* only its data_warehouse-typed filters and, without a breakdown, counts per
\* day the rows on which every data_warehouse-typed filter holds.
C21_PropertyFanOut ==
    nPc = "warehouse_trends" =>
        LET q == nIn.query
            fs == q.properties \o q.series[1].properties
            out == nOut[1]
        IN  /\ out = warehouse_trends(WithOnlyWarehouseTyped(q), nIn.frozen_now, nIn.rows,
                                      nIn.events, nIn.joins, nIn.join_kind)
            /\ Len(q.breakdownFilter.breakdown) = 0 =>
                  /\ out.raised = NoneStr
                  /\ Len(out.results) = 1
                  /\ \A i \in DOMAIN out.results[1].days :
                        out.results[1].data[i] =
                            Cardinality({r \in DOMAIN nIn.rows :
                                /\ DayOf(nIn.rows[r].created) = DayOf(out.results[1].days[i])
                                /\ \A f \in DOMAIN fs :
                                      fs[f].type = "data_warehouse" =>
                                          nIn.rows[r][fs[f].key] = fs[f].value})

\* test_trends_with_multiple_property_types: [1, 0, 0, 0, 0, 0, 0]
C21_Witness ==
    /\ nPc = "warehouse_trends"
    /\ nIn.rows = test_table_1
    /\ nIn.query.properties = PropertyListChoices[3]
    /\ HasMixedTypes(nIn.query)
    /\ Len(nIn.query.breakdownFilter.breakdown) = 0
    /\ nOut[1].raised = NoneStr
    /\ nOut[1].results[1].data = <<1, 0, 0, 0, 0, 0, 0>>

\* the query without its breakdown
WithoutBreakdown(query) == [query EXCEPT !.breakdownFilter.breakdown = <<>>]

\* the rows of the queried days on which the data_warehouse-typed filters hold
PassingRows ==
    LET fs == OnlyWarehouseTyped(nIn.query.properties \o nIn.query.series[1].properties)
    IN  {r \in DOMAIN nIn.rows :
            /\ DayOf(nIn.rows[r].created) \in 1 .. 7
            /\ \A f \in DOMAIN fs : nIn.rows[r][fs[f].key] = fs[f].value}

\* the declared join the breakdown goes through
BreakdownJoin ==
    LET chain == nIn.query.breakdownFilter.breakdown
    IN  CHOOSE j \in DOMAIN nIn.joins :
            /\ nIn.joins[j].field_name = chain[1]
            /\ \A k \in 1 .. j - 1 : nIn.joins[k].field_name # chain[1]

\* the events a row is joined with
JoinedWith(r) ==
    LET j == nIn.joins[BreakdownJoin]
    IN  {e \in DOMAIN nIn.events :
            /\ nIn.rows[r][j.source_table_key] = nIn.events[e][j.joining_table_key]
            /\ ("experiments_optimized" \in DOMAIN j.configuration) =>
                  /\ nIn.events[e].timestamp >= nIn.rows[r].created + j.configuration.window[1]
                  /\ nIn.events[e].timestamp <= nIn.rows[r].created + j.configuration.window[2]}

\* the breakdown values of the passing rows, null for a row joined with nothing
PassingValues ==
    LET chain == nIn.query.breakdownFilter.breakdown
    IN  IF Len(chain) = 1 THEN {nIn.rows[r][chain[1]] : r \in PassingRows}
        ELSE {IF chain[3] \in DOMAIN nIn.events[e].properties
              THEN nIn.events[e].properties[chain[3]] ELSE NoneStr :
                e \in UNION {JoinedWith(r) : r \in PassingRows}}
             \cup {NoneStr : r \in {x \in PassingRows : JoinedWith(x) = {}}}

\* the series are one per value of PassingValues and add up, day by day, to the
\* counts of the query without breakdown
SeriesPartitionTheTotal ==
    LET out == nOut[1]
        plain == warehouse_trends(WithoutBreakdown(nIn.query), nIn.frozen_now, nIn.rows,
                                  nIn.events, nIn.joins, nIn.join_kind).results[1].data
    IN  /\ \A a, b \in DOMAIN out.results :
              out.results[a].breakdown_value = out.results[b].breakdown_value => a = b
        /\ {out.results[a].breakdown_value : a \in DOMAIN out.results} = PassingValues
        /\ \A i \in DOMAIN plain :
              SumSeq([a \in DOMAIN out.results |-> out.results[a].data[i]]) = plain[i]

BreakdownAnswered ==
    /\ nPc = "warehouse_trends"
    /\ Len(nIn.query.breakdownFilter.breakdown) > 0
    /\ nOut[1].raised = NoneStr

\* C22 as stated: every breakdown, on a column or through a declared join,
\* gives one series per distinct value of the passing rows, and the series
\* add up per day to the counts of the query without breakdown.
C22_BreakdownPartitions == BreakdownAnswered => SeriesPartitionTheTotal

\* C22: a breakdown on a column of the series table, or through a declared
\* join that matches every passing row of the queried days with exactly one
\* joined row, gives one series per distinct breakdown value of those rows,
\* each carrying its value, and the series add up per day to the counts of
\* the query without breakdown.
C22_BreakdownPartitionsOneToOne ==
    ( /\ BreakdownAnswered
      /\ Len(nIn.query.breakdownFilter.breakdown) > 1 =>
            \A r \in PassingRows : Cardinality(JoinedWith(r)) = 1 )
    => SeriesPartitionTheTotal

\* test_trends_breakdown_with_event_property: four series a, b, c, d
C22_Witness ==
    /\ BreakdownAnswered
    /\ Len(nIn.query.breakdownFilter.breakdown) > 1
    /\ nIn.rows = test_table_1
    /\ nIn.events = EventListChoices[2]
    /\ \A r \in PassingRows : Cardinality(JoinedWith(r)) = 1
    /\ Len(nOut[1].results) = 4
    /\ nOut[1].results[2].breakdown_value = "b"
    /\ nOut[1].results[2].data = <<0, 1, 0, 0, 0, 0, 0>>

\* test_trends_breakdown on a table where two rows share a value
C22_WitnessColumn ==
    /\ BreakdownAnswered
    /\ nIn.query.breakdownFilter.breakdown = <<"prop_1">>
    /\ nIn.rows = TableChoices[3]
    /\ Len(nOut[1].results) = 4
    /\ nOut[1].results[1].data = <<2, 0, 0, 0, 0, 0, 0>>

\* the pairs the plain equality join sourceKey = joiningKey matches
EqualityPairs(join) ==
    {p \in (DOMAIN nIn.rows) \X (DOMAIN nIn.events) :
        nIn.rows[p[1]][join.source_table_key] = nIn.events[p[2]][join.joining_table_key]}

DeclaresOptimizedJoin ==
    /\ Len(nIn.joins) > 0
    /\ "experiments_optimized" \in DOMAIN nIn.joins[1].configuration

\* C23: the pairs a join declared experiments_optimized matches are among the
\* pairs the equality join sourceKey = joiningKey of the same declaration
\* matches, and a declared optimized join the query does not reference leaves
\* the result what it is without the declaration: [1, 1, 1, 1, 0, 0, 0] for
\* the four-row table.
C23_OptimizedJoinRefines ==
    /\ (nPc = "resolved" /\ DeclaresOptimizedJoin) =>
          nOut[1].pairs \subseteq EqualityPairs(nIn.joins[1])
    /\ ( /\ nPc = "warehouse_trends"
         /\ DeclaresOptimizedJoin
         /\ Len(nIn.query.breakdownFilter.breakdown) <= 1 ) =>
          /\ nOut[1] = warehouse_trends(nIn.query, nIn.frozen_now, nIn.rows, nIn.events,
                                        <<>>, nIn.join_kind)
          /\ ( /\ nIn.rows = test_table_1
               /\ Len(nIn.query.breakdownFilter.breakdown) = 0
               /\ Len(nIn.query.properties) + Len(nIn.query.series[1].properties) = 0 ) =>
                   nOut[1].results[1].data = <<1, 1, 1, 1, 0, 0, 0>>

\* the optimized join matches one of the four pairs of the equality join
C23_Witness ==
    /\ nPc = "resolved"
    /\ DeclaresOptimizedJoin
    /\ nIn.rows = test_table_1
    /\ nIn.events = EventListChoices[2]
    /\ Cardinality(EqualityPairs(nIn.joins[1])) = 4
    /\ nOut[1].pairs = {<<1, 1>>}

\* test_trends_breakdown_with_events_join_experiments_optimized
C23_WitnessUnreferenced ==
    /\ nPc = "warehouse_trends"
    /\ nIn.joins = JoinListChoices[5]
    /\ nIn.rows = test_table_1
    /\ Len(nIn.query.breakdownFilter.breakdown) = 0
    /\ nOut[1].results[1].data = <<1, 1, 1, 1, 0, 0, 0>>

(***************************************************************************)
(* Properties of the enqueueing of the recomputation                       *)
(***************************************************************************)
\* the playlists the claim says are due: not deleted, with filters, of an
\* allowed team, never counted or last counted more than 2 hours ago
DuePlaylists ==
    {i \in DOMAIN nIn.table :
        LET p == nIn.table[i]
        IN  /\ ~p.deleted
            /\ p.filters # None
            /\ p.team_id <= nIn.setting.value
            /\ (p.last_counted_at = <<>> \/ nIn.now - p.last_counted_at[1] > 2)}

\* the row with the id
RowOf(id) == CHOOSE i \in DOMAIN nIn.table : nIn.table[i].id = id

\* never counted first, then the longest ago first
CountedNoLaterThan(i, j) ==
    \/ nIn.table[i].last_counted_at = <<>>
    \/ /\ nIn.table[j].last_counted_at # <<>>
       /\ nIn.table[i].last_counted_at[1] <= nIn.table[j].last_counted_at[1]

\* C24: with an integer setting, a call queues one task invocation for each
\* due playlist, never-counted and oldest-counted first, up to the limit of
\* the queryset, and none for a playlist that is not due.
C24_EnqueuesDuePlaylists ==
    (nPc = "enqueued" /\ nIn.setting.kind = "int") =>
        LET delayed == nOut[1].delayed
            rows == {RowOf(delayed[k]) : k \in DOMAIN delayed}
        IN  /\ \A a, b \in DOMAIN delayed : delayed[a] = delayed[b] => a = b
            /\ rows \subseteq DuePlaylists
            /\ Len(delayed) = Min(QuerysetLimit, Cardinality(DuePlaylists))
            /\ \A a, b \in DOMAIN delayed :
                  a < b => CountedNoLaterThan(RowOf(delayed[a]), RowOf(delayed[b]))
            /\ \A i \in DuePlaylists \ rows : \A j \in rows : CountedNoLaterThan(j, i)
            /\ nOut[1].in_team_count = Len(delayed)

\* three due playlists and a limit of two: the never-counted one and the one
\* counted longest ago are queued, in that order
C24_Witness ==
    /\ nPc = "enqueued"
    /\ nIn.setting = [kind |-> "int", value |-> 2]
    /\ Cardinality(DuePlaylists) = 3
    /\ nIn.table[1].last_counted_at = <<EnqueueNow - 3>>
    /\ nIn.table[2].last_counted_at = <<>>
    /\ nIn.table[3].last_counted_at = <<EnqueueNow - 4>>
    /\ nOut[1].delayed = <<2, 3>>

\* a playlist counted exactly two hours ago is not queued
C24_WitnessBoundary ==
    /\ nPc = "enqueued"
    /\ nIn.setting = [kind |-> "int", value |-> 2]
    /\ nIn.table[1].last_counted_at = <<EnqueueNow - 2>>
    /\ nIn.table[2].last_counted_at = <<EnqueueNow - 3>>
    /\ nOut[1].delayed = <<2>>

\* C29: with the setting 0 the call returns without raising and queues
\* nothing, and a call raises only when the setting is unset or not an
\* integer.
C29_ZeroReturnsNormally ==
    nPc = "enqueued" =>
        /\ (nIn.setting.kind = "int" /\ nIn.setting.value = 0) =>
              nOut[1].raised = NoneStr /\ nOut[1].delayed = <<>>
        /\ nOut[1].raised # NoneStr => nIn.setting.kind # "int"

(***************************************************************************)
(* Properties of one invocation of the recomputation task                  *)
(***************************************************************************)
\* the increments of an invocation other than that of the conversion counter
OutcomeIncs(t) == SelectSeq(hist[t].incs, LAMBDA c : c # LEGACY_FILTERS_CONVERTED)

\* the counter that stands for an outcome
IsCounterOf(c, outcome) ==
    CASE outcome = "skipped_cooldown" -> c = skipped_counter("cooldown")
      [] outcome = "skipped_default_filters" -> c = skipped_counter("default_filters")
      [] outcome = "succeeded" -> c = SUCCEEDED
      [] outcome = "unknown" -> c = UNKNOWN
      [] outcome = "failed" -> c[1] = "replay_playlist_count_failed"
      [] OTHER -> FALSE

\* C25: an invocation reads the cache before it executes a query or writes
\* the cache, executes at most one query and writes the cache at most once,
\* and ends in exactly one of skipped (cooldown), skipped (default filters),
\* succeeded, failed and unknown, with the counter of that outcome, and no
\* other outcome counter, incremented once.
C25_OneOutcomePerInvocation ==
    \A t \in Tasks :
        /\ hist[t].executions <= 1
        /\ Len(hist[t].writes) <= 1
        /\ Len(hist[t].reads) <= 1
        /\ (hist[t].executions > 0 \/ Len(hist[t].writes) > 0) => Len(hist[t].reads) = 1
        /\ Len(hist[t].writes) > 0 => hist[t].executions = 1
        /\ Len(OutcomeIncs(t)) <= 1
        /\ task[t].pc = "done" <=> Len(OutcomeIncs(t)) = 1
        /\ task[t].pc = "done" =>
              /\ hist[t].outcome \in {"skipped_cooldown", "skipped_default_filters",
                                      "succeeded", "failed", "unknown"}
              /\ IsCounterOf(OutcomeIncs(t)[1], hist[t].outcome)
              /\ hist[t].outcome \in {"skipped_cooldown", "skipped_default_filters"} =>
                    hist[t].executions = 0 /\ hist[t].writes = <<>>
              /\ hist[t].outcome = "succeeded" =>
                    hist[t].executions = 1 /\ Len(hist[t].writes) = 1

\* one invocation ended unknown without a read of the cache, the other failed
\* after its read, its query and its write
C25_Witness ==
    /\ task[1].pc = "done" /\ hist[1].outcome = "unknown" /\ hist[1].reads = <<>>
    /\ task[2].pc = "done" /\ hist[2].outcome = "failed"
    /\ hist[2].executions = 1 /\ Len(hist[2].writes) = 1
    /\ Len(OutcomeIncs(2)) = 1

(***************************************************************************)
(* Properties of the translator's dispatch and of the duration array       *)
(***************************************************************************)
\* the list the claim sends a leaf to
ClaimedList(f) ==
    LET type == LeafGet(f, "type")
    IN  CASE type = "events" -> "events"
          [] type = "actions" -> "actions"
          [] type = "log_entry" -> "console_log_filters"
          [] type = "recording" /\ LeafGet(f, "key") = "visited_page" -> "events"
          [] type = "recording" /\ LeafGet(f, "key") = "snapshot_source"
                /\ LeafGet(f, "value") \notin {NoneStr, ""} -> "having_predicates"
          [] OTHER -> "properties"

\* the leaves sent to a list, in their order, a visited_page leaf rewritten
RECURSIVE SentTo(_, _)
SentTo(L, list) ==
    IF L = <<>> THEN <<>>
    ELSE (IF ClaimedList(Head(L)) # list THEN <<>>
          ELSE IF IsRecordingLeaf(Head(L), "visited_page") THEN << PageviewFor(Head(L)) >>
          ELSE << Head(L) >>)
         \o SentTo(Tail(L), list)

TranslatedUniversal ==
    /\ nPc = "translated"
    /\ Has(nIn, "filter_group")
    /\ nOut[1].raised = NoneStr

\* the duration array of the stored document, empty when there is none
StoredDuration == IF Has(nIn, "duration") THEN nIn["duration"] ELSE <<>>

\* C28: of a duration array of length k >= 1 only entry 0 becomes a
\* having-predicate, built from its key, operator and value, and the entries
\* after it change nothing in the query; for an absent or empty duration
\* array no duration predicate is added.
C28_FirstDurationOnly ==
    TranslatedUniversal =>
        LET q == nOut[1].query
            d == StoredDuration
            L == IF HasLeaves(nIn) THEN LeavesOf(nIn) ELSE <<>>
        IN  IF Len(d) = 0
            THEN q.having_predicates = SentTo(L, "having_predicates")
            ELSE /\ q.having_predicates =
                        << [type |-> "recording", key |-> d[1].key,
                            operator |-> d[1].operator, value |-> d[1].value] >>
                        \o SentTo(L, "having_predicates")
                 /\ q = convert_filters_to_recordings_query(
                            [nIn EXCEPT !["duration"] = << d[1] >>]).query

\* a duration array of two entries: the first is the only duration predicate
C28_Witness ==
    /\ TranslatedUniversal
    /\ Len(StoredDuration) = 2
    /\ HasLeaves(nIn)
    /\ Len(LeavesOf(nIn)) = 1
    /\ IsRecordingLeaf(LeavesOf(nIn)[1], "snapshot_source")
    /\ Len(nOut[1].query.having_predicates) = 2
    /\ nOut[1].query.having_predicates[1] =
           [type |-> "recording", key |-> "active_seconds", operator |-> "gt", value |-> 10]
    /\ nOut[1].query.having_predicates[2] = LeavesOf(nIn)[1]

\* an empty duration array adds no predicate
C28_WitnessEmpty ==
    /\ TranslatedUniversal
    /\ Has(nIn, "duration")
    /\ StoredDuration = <<>>
    /\ nOut[1].query.having_predicates = <<>>

(***************************************************************************)
(* Properties of the persistence of the normalized form                    *)
(***************************************************************************)
Translated == nPc \in {"translated", "translated_again"}

\* C27 as stated: the translator saves playlist.filters and increments the
\* conversion counter exactly when the stored filters are non-empty and have
\* no filter_group, and a second translation saves nothing.
C27_SavesWhenStoredLegacy ==
    /\ Translated => (nOut[1].legacy <=> (DOMAIN nIn # {} /\ ~Has(nIn, "filter_group")))
    /\ nPc = "translated_again" => ~nOut[2].legacy

\* C27: the translator saves playlist.filters and increments the conversion
\* counter exactly when the stored filters have no filter_group and are
\* non-empty once version and hogql_filtering are removed; for a universal
\* document, an empty document and a document of only those two keys it
\* saves nothing, and a second translation of the playlist saves nothing.
C27_SavesWhenLegacy ==
    /\ Translated => (nOut[1].legacy <=> (NonEmptyDoc(nIn) /\ ~Has(nIn, "filter_group")))
    /\ nPc = "translated_again" => ~nOut[2].legacy

\* a legacy document was converted and saved, and translated again
C27_Witness ==
    /\ nPc = "translated_again"
    /\ NonEmptyDoc(nIn)
    /\ ~Has(nIn, "filter_group")
    /\ nOut[1].legacy
    /\ nOut[1].filters # nIn
    /\ Has(nOut[1].filters, "filter_group")
    /\ ~nOut[2].legacy
    /\ nOut[2].raised = NoneStr

\* a stored document of only version and hogql_filtering is not saved
C27_WitnessOnlyStrippedKeys ==
    /\ Translated
    /\ DOMAIN nIn = {"version", "hogql_filtering"}
    /\ ~nOut[1].legacy

(***************************************************************************)
(* Properties of the creation of projects                                  *)
(***************************************************************************)
\* C30: whatever the interleaving of the permission checks and the creations
\* of the requests, an organization without the multi-project feature has at
\* most one non-demo project, an organization with a numeric limit has at
\* most that many, and any organization has at most one demo project.
C30_ProjectLimit ==
    LET org == nIn.organization
        non_demo == Cardinality({i \in DOMAIN nOut : ~nOut[i].is_demo})
        demo == Cardinality({i \in DOMAIN nOut : nOut[i].is_demo})
    IN  /\ ~org.feature_available => non_demo <= 1
        /\ (org.feature_available /\ org.limit # <<>>) => non_demo <= org.limit[1]
        /\ demo <= 1

=============================================================================
